---- MODULE Spec2Model ----
(***************************************************************************)
(* moonpack: a Lua bundler.  Model of the bundler pipeline                  *)
(*   parser.ts   - string/comment span scanner, require extraction and      *)
(*                 the require -> __load rewriter                           *)
(*   resolver.ts - relative-path module resolution                          *)
(*   graph.ts    - dependency discovery, cycle detection, topological sort  *)
(*   codegen.ts  - bundle emission and the __load runtime shim              *)
(*                                                                         *)
(* Source text is a sequence of one-character strings, addressed by         *)
(* 0-based offsets exactly as the TypeScript code addresses a string.       *)
(***************************************************************************)
EXTENDS Integers, Sequences, FiniteSets, TLC

\* ------------------------------------------------------------------------
\* Bounds of the model
\* ------------------------------------------------------------------------
\* number of text fragments a generated source buffer is assembled from
MaxParts == 3

\* number of require sites written into the files of a project
MaxSites == 4

\* ------------------------------------------------------------------------
\* JavaScript string primitives on sequences of characters (0-based)
\* ------------------------------------------------------------------------
\* source[i]; the empty string stands for `undefined`
At(s, i) == IF i >= 0 /\ i < Len(s) THEN s[i + 1] ELSE ""

\* source.substring(a, b)
Substring(s, a, b) == SubSeq(s, a + 1, b)

\* source.substring(a)
SubstringFrom(s, a) == SubSeq(s, a + 1, Len(s))

StartsWithAt(s, i, w) ==
    /\ i >= 0
    /\ i + Len(w) <= Len(s)
    /\ SubSeq(s, i + 1, i + Len(w)) = w

SetMin(S) == CHOOSE x \in S : \A y \in S : x <= y

SetMax(S) == CHOOSE x \in S : \A y \in S : x >= y

\* the element of a one-element set: Only({e : x \in {v}}) is e with x bound
\* to the value v, which is computed once
Only(S) == CHOOSE x \in S : TRUE

\* source.indexOf(w, from), -1 when absent
IndexOf(s, w, from) ==
    LET hits == {i \in from..(Len(s) - Len(w)) : StartsWithAt(s, i, w)}
    IN IF hits = {} THEN -1 ELSE SetMin(hits)

RECURSIVE Repeat(_, _)
\* "=".repeat(n)
Repeat(c, n) == IF n <= 0 THEN <<>> ELSE <<c>> \o Repeat(c, n - 1)

RECURSIVE Concat(_)
\* joins a sequence of character sequences
Concat(ss) == IF ss = <<>> THEN <<>> ELSE Head(ss) \o Concat(Tail(ss))

\* the characters the regular-expression class \s matches: space, tab, line
\* feed, carriage return, form feed, and written as themselves the vertical
\* tab U+000B, the no-break space U+00A0, U+1680 and the byte-order mark
\* U+FEFF.  The other members of \s (U+2000 to U+200A, U+2028, U+2029,
\* U+202F, U+205F, U+3000) cannot be written in a string of this module and
\* occur in no buffer of it
WhiteSpace == {" ", "\t", "\n", "\r", "\f", "", " ", " ", "﻿"}

\* the characters the class ["'] matches
Quotes == {"\"", "'"}

\* ------------------------------------------------------------------------
\* parser.ts: lexical span scanner
\* ------------------------------------------------------------------------
RECURSIVE countEquals(_, _)
\* the `while (source[i] === "=")` loop of matchLongBracket: index after the run
countEquals(source, i) ==
    IF i < Len(source) /\ At(source, i) = "="
    THEN countEquals(source, i + 1)
    ELSE i

\* the tail of matchLongBracket: source.indexOf(closePattern, from) and the
\* offset of the last character of the closing bracket, -1 for null
closeLongBracket(source, from, closePattern) ==
    LET closeIndex == IF from < Len(source)
                      THEN IndexOf(source, closePattern, from)
                      ELSE -1
    IN IF closeIndex = -1 THEN -1
       ELSE closeIndex + Len(closePattern) - 1

\* matchLongBracket: offset of the last character of the closing bracket,
\* -1 for null
matchLongBracket(source, start) ==
    IF At(source, start) # "[" THEN -1
    ELSE Only({ IF At(source, i) # "[" THEN -1
                ELSE closeLongBracket(
                         source, i + 1,
                         <<"]">> \o Repeat("=", i - (start + 1)) \o <<"]">>)
                : i \in {countEquals(source, start + 1)} })

\* offset of the first character at or after i that belongs to chars, Len(s)
\* when there is none: the iterations of a scanning loop that change nothing
\* are skipped in one step
NextOf(s, i, chars) ==
    LET hits == {j \in i..(Len(s) - 1) : At(s, j) \in chars}
    IN IF hits = {} THEN Len(s) ELSE SetMin(hits)

RECURSIVE scanQuoted(_, _, _)
\* inner loop of findAllStringSpans: offset of the closing quote, -1 when the
\* end of the buffer is reached first
scanQuoted(source, i, quote) ==
    Only({ IF j >= Len(source) THEN -1
           ELSE IF At(source, j) = "\\" THEN scanQuoted(source, j + 2, quote)
           ELSE j
           : j \in {NextOf(source, i, {"\\", quote})} })

RECURSIVE stringSpansFrom(_, _)
\* the span opened at offset j, closed at offset close (-1 when it is not
\* closed), and the spans after it
spanThenRest(source, j, close, restIfOpen) ==
    IF close = -1 THEN restIfOpen
    ELSE <<[start |-> j, end |-> close]>> \o stringSpansFrom(source, close + 1)

\* outer loop of findAllStringSpans, resumed at offset i: an unterminated
\* quote ends the scan, a "[" that opens no long bracket is skipped
stringSpansFrom(source, i) ==
    Only({ IF j >= Len(source) THEN <<>>
           ELSE IF At(source, j) \in Quotes
           THEN spanThenRest(source, j, scanQuoted(source, j + 1, At(source, j)),
                             <<>>)
           ELSE spanThenRest(source, j, matchLongBracket(source, j),
                             stringSpansFrom(source, j + 1))
           : j \in {NextOf(source, i, Quotes \cup {"["})} })

findAllStringSpans(source) == stringSpansFrom(source, 0)

isInsideRange(position, ranges) ==
    \E k \in 1..Len(ranges) :
        position >= ranges[k].start /\ position <= ranges[k].end

RECURSIVE commentSpansFrom(_, _, _)
\* the comment that starts at offset j: a long comment ending at bracketEnd,
\* or a line comment ending before lineEnd (-1: at the end of the buffer)
commentAt(source, stringSpans, j, bracketEnd, lineEnd) ==
    IF bracketEnd # -1
    THEN <<[start |-> j, end |-> bracketEnd]>>
             \o commentSpansFrom(source, stringSpans, bracketEnd + 1)
    ELSE IF lineEnd = -1
    THEN <<[start |-> j, end |-> Len(source) - 1]>>
    ELSE <<[start |-> j, end |-> lineEnd - 1]>>
             \o commentSpansFrom(source, stringSpans, lineEnd + 1)

\* loop of findAllCommentSpans, resumed at offset i
commentSpansFrom(source, stringSpans, i) ==
    Only({ IF j = -1 THEN <<>>
           ELSE IF isInsideRange(j, stringSpans)
           THEN commentSpansFrom(source, stringSpans, j + 1)
           ELSE commentAt(source, stringSpans, j,
                          IF At(source, j + 2) = "["
                          THEN matchLongBracket(source, j + 2)
                          ELSE -1,
                          IndexOf(source, <<"\n">>, j))
           : j \in {IndexOf(source, <<"-", "-">>, i)} })

findAllCommentSpans(source, stringSpans) == commentSpansFrom(source, stringSpans, 0)

\* excludedRanges = [...stringSpans, ...commentSpans]
excludedRanges(source) ==
    Only({ stringSpans \o findAllCommentSpans(source, stringSpans)
           : stringSpans \in {findAllStringSpans(source)} })

\* ------------------------------------------------------------------------
\* parser.ts: REQUIRE_PATTERNS, the three regular expressions
\* ------------------------------------------------------------------------
NoMatch == [ok |-> FALSE]

RECURSIVE skipSpace(_, _)
\* \s* : offset of the first character at or after i that is not white space
skipSpace(source, i) ==
    IF At(source, i) \in WhiteSpace THEN skipSpace(source, i + 1) ELSE i

\* end of the run [^"']+ : offset of the next quote character, -1 if none
nextQuote(source, i) ==
    Only({ IF j >= Len(source) THEN -1 ELSE j : j \in {NextOf(source, i, Quotes)} })

\* (["'])([^"']+)\1 anchored at offset i
matchQuotedName(source, i) ==
    IF At(source, i) \notin Quotes THEN NoMatch
    ELSE Only({ IF close = -1 \/ close = i + 1 \/ At(source, close) # At(source, i)
                THEN NoMatch
                ELSE [ok |-> TRUE, quote |-> At(source, i),
                      moduleName |-> Substring(source, i + 1, close),
                      end |-> close + 1]
                : close \in {nextQuote(source, i + 1)} })

KwRequire == <<"r", "e", "q", "u", "i", "r", "e">>
KwPcall == <<"p", "c", "a", "l", "l">>

\* the match of a pattern that starts at offset i, whose quoted name is q and
\* which ends with \s*\) when closing is TRUE
matchEnding(source, i, q, type, closing) ==
    IF ~q.ok THEN NoMatch
    ELSE IF ~closing
    THEN [ok |-> TRUE, index |-> i, end |-> q.end,
          quote |-> q.quote, moduleName |-> q.moduleName, type |-> type]
    ELSE Only({ IF At(source, close) # ")" THEN NoMatch
                ELSE [ok |-> TRUE, index |-> i, end |-> close + 1,
                      quote |-> q.quote, moduleName |-> q.moduleName,
                      type |-> type]
                : close \in {skipSpace(source, q.end)} })

\* /require\s*\(\s*(["'])([^"']+)\1\s*\)/ anchored at offset i
matchStandard(source, i) ==
    IF ~StartsWithAt(source, i, KwRequire) THEN NoMatch
    ELSE Only({ IF At(source, open) # "(" THEN NoMatch
                ELSE matchEnding(source, i,
                                 matchQuotedName(source, skipSpace(source, open + 1)),
                                 "standard", TRUE)
                : open \in {skipSpace(source, i + Len(KwRequire))} })

\* /require\s*(["'])([^"']+)\1/ anchored at offset i
matchCompact(source, i) ==
    IF ~StartsWithAt(source, i, KwRequire) THEN NoMatch
    ELSE matchEnding(source, i,
                     matchQuotedName(source, skipSpace(source, i + Len(KwRequire))),
                     "compact", FALSE)

\* the part require\s*,\s*(["'])([^"']+)\1\s*\) of the pcall pattern, require
\* expected at offset kw
matchPcallArguments(source, i, kw) ==
    IF ~StartsWithAt(source, kw, KwRequire) THEN NoMatch
    ELSE Only({ IF At(source, comma) # "," THEN NoMatch
                ELSE matchEnding(source, i,
                                 matchQuotedName(source, skipSpace(source, comma + 1)),
                                 "pcall", TRUE)
                : comma \in {skipSpace(source, kw + Len(KwRequire))} })

\* /pcall\s*\(\s*require\s*,\s*(["'])([^"']+)\1\s*\)/ anchored at offset i
matchPcall(source, i) ==
    IF ~StartsWithAt(source, i, KwPcall) THEN NoMatch
    ELSE Only({ IF At(source, open) # "(" THEN NoMatch
                ELSE matchPcallArguments(source, i, skipSpace(source, open + 1))
                : open \in {skipSpace(source, i + Len(KwPcall))} })

\* the order of REQUIRE_PATTERNS
PatternTypes == <<"standard", "compact", "pcall">>

matchAt(type, source, i) ==
    CASE type = "standard" -> matchStandard(source, i)
      [] type = "compact"  -> matchCompact(source, i)
      [] type = "pcall"    -> matchPcall(source, i)

\* regex.exec(source) of a /g regex whose lastIndex is given: the leftmost
\* match at or after lastIndex, NoMatch for null
exec(type, source, lastIndex) ==
    Only({ IF starts = {} THEN NoMatch ELSE matchAt(type, source, SetMin(starts))
           : starts \in {{i \in lastIndex..(Len(source) - 1) :
                             matchAt(type, source, i).ok}} })

RECURSIVE execAll(_, _, _)
\* the matches from m on: exec leaves lastIndex at the end of its match
execFrom(type, source, m) ==
    IF ~m.ok THEN <<>> ELSE <<m>> \o execAll(type, source, m.end)

\* the `while ((match = regex.exec(source)) !== null)` loop: every match in
\* turn, starting from lastIndex
execAll(type, source, lastIndex) == execFrom(type, source, exec(type, source, lastIndex))

\* match[0].length
rawLength(m) == m.end - m.index

\* ------------------------------------------------------------------------
\* parser.ts: parseRequireStatements
\* ------------------------------------------------------------------------
isPartOfStandardRequire(source, index, length) ==
    At(source, skipSpace(source, index + length)) = ")"

\* the body of the exec loop of parseRequireStatements: is the match pushed?
parseKeeps(source, ranges, m) ==
    /\ ~isInsideRange(m.index, ranges)
    /\ ~(m.type = "compact" /\ isPartOfStandardRequire(source, m.index, rawLength(m)))

RECURSIVE keptMatches(_, _, _)
\* the matches of one pattern that the exec loop pushes, in order
keptMatches(source, ranges, matches) ==
    IF matches = <<>> THEN <<>>
    ELSE IF parseKeeps(source, ranges, Head(matches))
         THEN <<Head(matches)>> \o keptMatches(source, ranges, Tail(matches))
         ELSE keptMatches(source, ranges, Tail(matches))

\* the matches of every pattern, in the order of REQUIRE_PATTERNS
allPatternMatches(source) ==
    Concat([k \in 1..Len(PatternTypes) |-> execAll(PatternTypes[k], source, 0)])

\* allMatches before sorting: pattern by pattern
collectMatches(source) ==
    keptMatches(source, excludedRanges(source), allPatternMatches(source))

RECURSIVE insertByIndex(_, _)
insertByIndex(sorted, m) ==
    IF sorted = <<>> THEN <<m>>
    ELSE IF m.index < Head(sorted).index THEN <<m>> \o sorted
    ELSE <<Head(sorted)>> \o insertByIndex(Tail(sorted), m)

RECURSIVE sortByIndex(_)
\* allMatches.sort((a, b) => a.index - b.index), a stable sort
sortByIndex(matches) ==
    IF matches = <<>> THEN <<>>
    ELSE insertByIndex(sortByIndex(SubSeq(matches, 1, Len(matches) - 1)),
                       matches[Len(matches)])

overlaps(a, b) ==
    \/ (a.index >= b.index /\ a.index < b.index + rawLength(b))
    \/ (b.index >= a.index /\ b.index < a.index + rawLength(a))

RECURSIVE dedupeInto(_, _)
\* one iteration of the loop of deduplicateMatches: match overlaps the entries
\* of result at the positions hits
dedupeStep(result, match, hits) ==
    IF hits # {}
    THEN IF rawLength(match) > rawLength(result[SetMin(hits)])
         THEN [result EXCEPT ![SetMin(hits)] = match]
         ELSE result
    ELSE Append(result, match)

\* the loop of deduplicateMatches with `result` accumulated so far
dedupeInto(result, matches) ==
    IF matches = <<>> THEN result
    ELSE dedupeInto(dedupeStep(result, Head(matches),
                               {k \in 1..Len(result) :
                                   overlaps(Head(matches), result[k])}),
                    Tail(matches))

deduplicateMatches(matches) == dedupeInto(<<>>, matches)

\* getLineAndColumn
getLineAndColumn(source, position) ==
    LET newlines == {i \in 0..(position - 1) : At(source, i) = "\n"}
    IN [line |-> 1 + Cardinality(newlines),
        column |-> position - (IF newlines = {} THEN -1 ELSE SetMax(newlines))]

\* the de-duplicated matches, still carrying their offsets
requireMatches(source) == deduplicateMatches(sortByIndex(collectMatches(source)))

\* the RequireStatement pushed for match m at the position pos
requireStatement(source, m, pos) ==
    [moduleName |-> m.moduleName,
     line       |-> pos.line,
     column     |-> pos.column,
     raw        |-> Substring(source, m.index, m.end),
     type       |-> m.type]

statementsOf(source, deduped) ==
    [k \in 1..Len(deduped) |->
        requireStatement(source, deduped[k],
                         getLineAndColumn(source, deduped[k].index))]

parseRequireStatements(source) == statementsOf(source, requireMatches(source))

\* ------------------------------------------------------------------------
\* parser.ts: transformRequiresToLoad
\* ------------------------------------------------------------------------
KwLoadOpen == <<"_", "_", "l", "o", "a", "d", "(">>
KwPcallLoad == <<"p", "c", "a", "l", "l", "(", "_", "_", "l", "o", "a", "d", ",", " ">>

\* the template literals that build `replacement`
replacementText(type, quote, moduleName) ==
    IF type = "pcall"
    THEN KwPcallLoad \o <<quote>> \o moduleName \o <<quote, ")">>
    ELSE KwLoadOpen \o <<quote>> \o moduleName \o <<quote, ")">>

\* alreadyReplaced: replacements.some(...)
alreadyReplaced(replacements, m) ==
    \E k \in 1..Len(replacements) :
        \/ (m.index >= replacements[k].start /\ m.index < replacements[k].end)
        \/ (replacements[k].start >= m.index
               /\ replacements[k].start < m.index + rawLength(m))

\* a faulty test that rewrites a site whatever its import name
replaceSkipsNoLookup(source, bundledModules, ranges, replacements, m) ==
    \/ isInsideRange(m.index, ranges)
    \/ (m.type = "compact" /\ isPartOfStandardRequire(source, m.index, rawLength(m)))
    \/ alreadyReplaced(replacements, m)

\* the tests of the exec loops of transformRequiresToLoad that skip match m
replaceSkips(source, bundledModules, ranges, replacements, m) ==
    \/ isInsideRange(m.index, ranges)
    \/ (m.type = "compact" /\ isPartOfStandardRequire(source, m.index, rawLength(m)))
    \/ m.moduleName \notin DOMAIN bundledModules
    \/ alreadyReplaced(replacements, m)

RECURSIVE collectReplacements(_, _, _, _, _)
\* the body of the exec loops of transformRequiresToLoad over the matches of
\* all patterns in pattern order, `replacements` accumulated so far
collectReplacements(source, bundledModules, ranges, replacements, matches) ==
    IF matches = <<>> THEN replacements
    ELSE collectReplacements(
             source, bundledModules, ranges,
             IF replaceSkips(source, bundledModules, ranges, replacements,
                             Head(matches))
             THEN replacements
             ELSE Append(replacements,
                         [start |-> Head(matches).index,
                          end |-> Head(matches).index + rawLength(Head(matches)),
                          replacement |->
                              replacementText(Head(matches).type, Head(matches).quote,
                                              Head(matches).moduleName)]),
             Tail(matches))

RECURSIVE insertByStartDesc(_, _)
insertByStartDesc(sorted, r) ==
    IF sorted = <<>> THEN <<r>>
    ELSE IF r.start > Head(sorted).start THEN <<r>> \o sorted
    ELSE <<Head(sorted)>> \o insertByStartDesc(Tail(sorted), r)

RECURSIVE sortByStartDesc(_)
\* replacements.sort((a, b) => b.start - a.start)
sortByStartDesc(rs) ==
    IF rs = <<>> THEN <<>>
    ELSE insertByStartDesc(sortByStartDesc(SubSeq(rs, 1, Len(rs) - 1)), rs[Len(rs)])

RECURSIVE applyReplacements(_, _)
\* the final loop: result = result.substring(0, start) + replacement + result.substring(end)
applyReplacements(result, rs) ==
    IF rs = <<>> THEN result
    ELSE applyReplacements(
             Substring(result, 0, Head(rs).start) \o Head(rs).replacement
                 \o SubstringFrom(result, Head(rs).end),
             Tail(rs))

\* the end of transformRequiresToLoad
applyAll(source, replacements) ==
    IF Len(replacements) = 0 THEN source
    ELSE applyReplacements(source, sortByStartDesc(replacements))

transformRequiresToLoad(source, bundledModules) ==
    applyAll(source,
             collectReplacements(source, bundledModules, excludedRanges(source),
                                 <<>>, allPatternMatches(source)))

\* ------------------------------------------------------------------------
\* node:path (POSIX) as resolver.ts uses it
\* ------------------------------------------------------------------------
Slash == <<"/">>
Dot == <<".">>
DotDot == <<".", ".">>

EndsWith(s, w) == Len(w) <= Len(s) /\ SubstringFrom(s, Len(s) - Len(w)) = w

RECURSIVE splitFrom(_, _, _)
\* s.split(sep) for a one-character separator, resumed at offset i
splitFrom(s, sep, i) ==
    Only({ IF j >= Len(s) THEN <<SubstringFrom(s, i)>>
           ELSE <<Substring(s, i, j)>> \o splitFrom(s, sep, j + 1)
           : j \in {NextOf(s, i, {sep})} })

Split(s, sep) == splitFrom(s, sep, 0)

RECURSIVE JoinWith(_, _)
\* parts.join(sep)
JoinWith(parts, sep) ==
    IF parts = <<>> THEN <<>>
    ELSE IF Len(parts) = 1 THEN parts[1]
    ELSE parts[1] \o sep \o JoinWith(Tail(parts), sep)

RECURSIVE normalizeSegments(_, _, _)
\* normalizeString of node:path: drops empty and "." segments and resolves
\* ".." against the segments kept so far
normalizeSegments(segs, kept, isAbsolute) ==
    IF segs = <<>> THEN kept
    ELSE LET seg == Head(segs) rest == Tail(segs) IN
         IF seg = <<>> \/ seg = Dot THEN normalizeSegments(rest, kept, isAbsolute)
         ELSE IF seg = DotDot
         THEN IF kept # <<>> /\ kept[Len(kept)] # DotDot
              THEN normalizeSegments(rest, SubSeq(kept, 1, Len(kept) - 1), isAbsolute)
              ELSE IF isAbsolute THEN normalizeSegments(rest, kept, isAbsolute)
              ELSE normalizeSegments(rest, Append(kept, seg), isAbsolute)
         ELSE normalizeSegments(rest, Append(kept, seg), isAbsolute)

\* the end of path.normalize: body is the normalized path without its root.
\* An empty body gives "/" for an absolute path, and "./" or "." for a
\* relative one
normalizedPath(body, isAbsolute, trailing) ==
    (IF isAbsolute THEN Slash ELSE <<>>)
        \o (IF Len(body) = 0 /\ ~isAbsolute THEN Dot ELSE body)
        \o (IF trailing /\ (Len(body) > 0 \/ ~isAbsolute) THEN Slash ELSE <<>>)

\* path.normalize(p)
normalize(p) ==
    IF Len(p) = 0 THEN Dot
    ELSE normalizedPath(
             JoinWith(normalizeSegments(Split(p, "/"), <<>>, At(p, 0) = "/"), Slash),
             At(p, 0) = "/",
             At(p, Len(p) - 1) = "/")

\* path.join(a, b)
join(a, b) ==
    IF Len(a) = 0 /\ Len(b) = 0 THEN Dot
    ELSE IF Len(a) = 0 THEN normalize(b)
    ELSE IF Len(b) = 0 THEN normalize(a)
    ELSE normalize(a \o Slash \o b)

RECURSIVE stripTrailingSlashes(_)
stripTrailingSlashes(p) ==
    IF Len(p) > 1 /\ At(p, Len(p) - 1) = "/"
    THEN stripTrailingSlashes(Substring(p, 0, Len(p) - 1))
    ELSE p

\* path.dirname of a path q that ends with no slash: the scan from the end
\* stops at the last slash behind offset 0 and the path is cut there, with
\* the slashes before it kept; a root of two slashes is kept as it is
dirnameOf(q) ==
    LET slashes == {i \in 1..(Len(q) - 1) : At(q, i) = "/"}
    IN IF slashes = {} THEN (IF At(q, 0) = "/" THEN Slash ELSE Dot)
       ELSE IF At(q, 0) = "/" /\ SetMax(slashes) = 1 THEN Slash \o Slash
       ELSE Substring(q, 0, SetMax(slashes))

\* path.dirname(p)
dirname(p) == IF Len(p) = 0 THEN Dot ELSE dirnameOf(stripTrailingSlashes(p))

RECURSIVE commonPrefixLength(_, _)
commonPrefixLength(a, b) ==
    IF a = <<>> \/ b = <<>> \/ Head(a) # Head(b) THEN 0
    ELSE 1 + commonPrefixLength(Tail(a), Tail(b))

\* the end of path.relative: f and t are the segments of the two paths, c the
\* number of leading segments they share
relativeSegments(f, t, c) ==
    [k \in 1..(Len(f) - c) |-> DotDot] \o SubSeq(t, c + 1, Len(t))

\* path.relative(from, to) for absolute paths
relative(from, to) ==
    Only({ JoinWith(relativeSegments(f, t, commonPrefixLength(f, t)), Slash)
           : f \in {normalizeSegments(Split(from, "/"), <<>>, TRUE)},
             t \in {normalizeSegments(Split(to, "/"), <<>>, TRUE)} })

\* ------------------------------------------------------------------------
\* resolver.ts (relative-path resolution)
\* ------------------------------------------------------------------------
ExtLua == <<".", "l", "u", "a">>
InitLua == <<"i", "n", "i", "t", ".", "l", "u", "a">>
InitName == <<"i", "n", "i", "t">>

\* the result `{ resolved: null }`
NotResolved == [found |-> FALSE, moduleName |-> <<>>, filePath |-> <<>>]

\* fileExists(path) against the file system fs (path -> content)
fileExists(fs, path) == path \in DOMAIN fs

\* readTextFile(path)
readTextFile(fs, path) == fs[path]

RECURSIVE backslashesToSlashes(_)
\* .replace(/\\/g, '/')
backslashesToSlashes(s) ==
    IF s = <<>> THEN <<>>
    ELSE <<IF Head(s) = "\\" THEN "/" ELSE Head(s)>> \o backslashesToSlashes(Tail(s))

\* .replace(/\.lua$/, '')
stripLuaExtension(s) ==
    IF EndsWith(s, ExtLua) THEN Substring(s, 0, Len(s) - Len(ExtLua)) ELSE s

\* .replace(/[/\\]init$/, '')
stripInitSuffix(s) ==
    IF EndsWith(s, Slash \o InitName) \/ EndsWith(s, <<"\\">> \o InitName)
    THEN Substring(s, 0, Len(s) - Len(InitName) - 1)
    ELSE s

normalizeModuleName(filePath, sourceRoot) ==
    backslashesToSlashes(stripInitSuffix(stripLuaExtension(relative(sourceRoot, filePath))))

\* a faulty id that keeps the file extension
moduleNameWithExtension(filePath, sourceRoot) ==
    backslashesToSlashes(relative(sourceRoot, filePath))

getModuleNameFromPath(filePath, sourceRoot) == normalizeModuleName(filePath, sourceRoot)

\* the `{ resolved: { moduleName, filePath } }` result
resolvedAs(filePath, sourceRoot) ==
    [found |-> TRUE,
     moduleName |-> normalizeModuleName(filePath, sourceRoot),
     filePath |-> filePath]

\* resolveModulePath from line 182 on: the file is tried before the init file
resolveTarget(fs, targetPath, sourceRoot) ==
    Only({ IF fileExists(fs, luaPath) THEN resolvedAs(luaPath, sourceRoot)
           ELSE IF fileExists(fs, initPath) THEN resolvedAs(initPath, sourceRoot)
           ELSE NotResolved
           : luaPath \in {IF EndsWith(targetPath, ExtLua) THEN targetPath
                          ELSE targetPath \o ExtLua},
             initPath \in {join(targetPath, InitLua)} })

resolveModulePath(fs, requirePath, sourceRoot, currentFile) ==
    resolveTarget(fs, normalize(join(dirname(currentFile), requirePath)), sourceRoot)

\* RequireStatement.isLocal: an import name starting with "./" or "../" is a
\* bundled (local) import, every other name is external
isLocal(moduleName) ==
    \/ StartsWithAt(moduleName, 0, <<".", "/">>)
    \/ StartsWithAt(moduleName, 0, <<".", ".", "/">>)

\* ------------------------------------------------------------------------
\* graph.ts: dependency discovery
\* ------------------------------------------------------------------------
\* Map.set(key, value) on a map kept as a function
MapSet(m, key, value) ==
    [k \in (DOMAIN m) \cup {key} |-> IF k = key THEN value ELSE m[k]]

EmptyMap == [k \in {} |-> <<>>]

NoError == [code |-> "NONE", moduleName |-> <<>>, requiredBy |-> <<>>, line |-> 0,
            cycles |-> <<>>]

\* a freshly read module: `{ moduleName, filePath, source, requires,
\* dependencies: [], requireMappings: new Map() }`
nodeOf(moduleName, filePath, source) ==
    [moduleName |-> moduleName,
     filePath |-> filePath,
     source |-> source,
     requires |-> parseRequireStatements(source),
     dependencies |-> <<>>,
     requireMappings |-> EmptyMap]

newNode(fs, moduleName, filePath) ==
    nodeOf(moduleName, filePath, readTextFile(fs, filePath))

\* a faulty error that names the requiring module by its id
moduleNotFoundById(req, node) ==
    [code |-> "MODULE_NOT_FOUND",
     moduleName |-> req.moduleName,
     requiredBy |-> node.moduleName,
     line |-> req.line,
     cycles |-> <<>>]

\* the MoonpackError of lines 260-268
moduleNotFound(req, node) ==
    [code |-> "MODULE_NOT_FOUND",
     moduleName |-> req.moduleName,
     requiredBy |-> node.filePath,
     line |-> req.line,
     cycles |-> <<>>]

\* lines 271-272: the mapping and the dependency recorded on the node `name`
recordDependency(st, name, req, resolved) ==
    [st EXCEPT !.modules[name].requireMappings =
                   MapSet(@, req.moduleName, resolved.moduleName),
               !.modules[name].dependencies = Append(@, resolved.moduleName)]

\* a faulty step that reads the file of a new module twice
insertModuleReadTwice(fs, st, resolved) ==
    [st EXCEPT !.modules = MapSet(@, resolved.moduleName,
                                  newNode(fs, resolved.moduleName, resolved.filePath)),
               !.keys = Append(@, resolved.moduleName),
               !.reads = @ \o <<resolved.filePath, resolved.filePath>>]

\* lines 278-288: the file is read and modules.set(resolved.moduleName,
\* depNode) is called
insertModule(fs, st, resolved) ==
    [st EXCEPT !.modules = MapSet(@, resolved.moduleName,
                                  newNode(fs, resolved.moduleName, resolved.filePath)),
               !.keys = Append(@, resolved.moduleName),
               !.reads = Append(@, resolved.filePath)]

\* where an unfinished buildDependencyGraph stands: the activations of
\* processModuleDependencies, outermost first, each with its node and the index
\* k of the require its loop is at, and the call the innermost one awaits:
\* fileExists(luaPath) (resolver line 183), fileExists(initPath) (line 189) or
\* readTextFile (graph.ts line 278).  target is the targetPath of the require
\* being resolved, path the path handed to the awaited call
NoWalk == [frames |-> <<>>, op |-> "none", path |-> <<>>, target |-> <<>>]

\* what readTextFile throws for a file that is not there: the system's error,
\* no MoonpackError, so that formatError prints its message without a [CODE]
FileNotFound == [NoError EXCEPT !.code = "ENOENT"]

\* the require the innermost activation is at
requireAt(st) ==
    st.modules[st.walk.frames[Len(st.walk.frames)].name].requires[
        st.walk.frames[Len(st.walk.frames)].k]

\* the end of a loop body (`continue`, or the end of line 290): the innermost
\* activation goes to its next require
nextRequire(st) ==
    [st EXCEPT !.walk.frames[Len(st.walk.frames)].k = @ + 1,
               !.walk.op = "none", !.walk.path = <<>>, !.walk.target = <<>>]

\* the innermost activation returns to the `await` of line 290 of its caller,
\* whose loop body ends there
returnToCaller(st) ==
    IF Len(st.walk.frames) = 1
    THEN [st EXCEPT !.walk = NoWalk]
    ELSE nextRequire([st EXCEPT !.walk.frames = SubSeq(@, 1, Len(@) - 1)])

\* resolveModulePath, lines 179-183: the call runs up to its first await
awaitLuaPath(st, targetPath) ==
    [st EXCEPT !.walk.op = "existsLua",
               !.walk.target = targetPath,
               !.walk.path = IF EndsWith(targetPath, ExtLua) THEN targetPath
                             ELSE targetPath \o ExtLua]

RECURSIVE processModuleDependencies(_)
\* a faulty loop that resolves external imports as well
processEveryRequire(st) ==
    IF st.walk.frames = <<>> THEN st
    ELSE IF st.walk.frames[Len(st.walk.frames)].k
               > Len(st.modules[st.walk.frames[Len(st.walk.frames)].name].requires)
    THEN processModuleDependencies(returnToCaller(st))
    ELSE awaitLuaPath(
             st,
             normalize(join(dirname(
                 st.modules[st.walk.frames[Len(st.walk.frames)].name].filePath),
                 requireAt(st).moduleName)))

\* the loop `for (const req of node.requires)` of the innermost activation, run
\* from its current require up to the next await: activations whose loop is
\* over return, imports that are not local are passed over (lines 248-250), and
\* the first local import is handed to resolveModulePath (line 257).  With no
\* activation left buildDependencyGraph has all its modules
processModuleDependencies(st) ==
    IF st.walk.frames = <<>> THEN st
    ELSE IF st.walk.frames[Len(st.walk.frames)].k
               > Len(st.modules[st.walk.frames[Len(st.walk.frames)].name].requires)
    THEN processModuleDependencies(returnToCaller(st))
    ELSE IF ~isLocal(requireAt(st).moduleName)
    THEN processModuleDependencies(nextRequire(st))
    ELSE awaitLuaPath(
             st,
             normalize(join(dirname(
                 st.modules[st.walk.frames[Len(st.walk.frames)].name].filePath),
                 requireAt(st).moduleName)))

\* the completion of readTextFile(path) for the module moduleName (lines 215-229
\* for the entry, 278-290 for a dependency): the file as it is now becomes a
\* node, and processModuleDependencies is called on it
fileRead(fs, st, moduleName, filePath) ==
    IF ~fileExists(fs, filePath)
    THEN [st EXCEPT !.error = FileNotFound, !.reads = Append(@, filePath)]
    ELSE processModuleDependencies(
             [insertModule(fs, st, [found |-> TRUE, moduleName |-> moduleName,
                                    filePath |-> filePath])
                 EXCEPT !.walk.frames = Append(@, [name |-> moduleName, k |-> 1]),
                        !.walk.op = "none", !.walk.path = <<>>, !.walk.target = <<>>])

\* a faulty loop body that passes over an import that resolves to no file
processRequireSkipMissing(st, result) ==
    IF ~result.found
    THEN processModuleDependencies(nextRequire(st))
    ELSE IF result.moduleName \in DOMAIN st.modules
    THEN processModuleDependencies(
             nextRequire(recordDependency(
                 st, st.walk.frames[Len(st.walk.frames)].name, requireAt(st), result)))
    ELSE [recordDependency(st, st.walk.frames[Len(st.walk.frames)].name,
                           requireAt(st), result)
             EXCEPT !.walk.op = "read", !.walk.path = result.filePath,
                    !.walk.target = <<>>]

\* lines 259-278 once resolveModulePath has returned result: MODULE_NOT_FOUND
\* for no file, else the dependency is recorded, and a module not in the map
\* yet is read
processRequire(st, result) ==
    IF ~result.found
    THEN [st EXCEPT !.error = moduleNotFound(
                        requireAt(st),
                        st.modules[st.walk.frames[Len(st.walk.frames)].name])]
    ELSE IF result.moduleName \in DOMAIN st.modules
    THEN processModuleDependencies(
             nextRequire(recordDependency(
                 st, st.walk.frames[Len(st.walk.frames)].name, requireAt(st), result)))
    ELSE [recordDependency(st, st.walk.frames[Len(st.walk.frames)].name,
                           requireAt(st), result)
             EXCEPT !.walk.op = "read", !.walk.path = result.filePath,
                    !.walk.target = <<>>]

\* the completion of an awaited fileExists of resolveModulePath: the file is
\* tried before the init file, and the answer is the one the disk gives now
fileExistsAnswered(fs, sourceRoot, st) ==
    IF fileExists(fs, st.walk.path)
    THEN processRequire(st, resolvedAs(st.walk.path, sourceRoot))
    ELSE IF st.walk.op = "existsLua"
    THEN [st EXCEPT !.walk.op = "existsInit",
                    !.walk.path = join(st.walk.target, InitLua)]
    ELSE processRequire(st, NotResolved)

\* buildDependencyGraph before any await: readTextFile(entryPath) is pending
\* (line 215)
discoveryStarted ==
    [modules |-> EmptyMap, keys |-> <<>>, reads |-> <<>>, error |-> NoError,
     walk |-> [NoWalk EXCEPT !.op = "read"]]

\* one turn of buildDependencyGraph: the awaited call completes against the
\* files as they are now, and the code runs on to its next await, to its throw,
\* or to the end of the discovery
discoveryStep(fs, entryPath, sourceRoot, st) ==
    IF st.walk.op = "read" /\ st.walk.frames = <<>>
    THEN fileRead(fs, st, getModuleNameFromPath(entryPath, sourceRoot), entryPath)
    ELSE IF st.walk.op = "read"
    THEN fileRead(fs, st, normalizeModuleName(st.walk.path, sourceRoot), st.walk.path)
    ELSE fileExistsAnswered(fs, sourceRoot, st)

\* ------------------------------------------------------------------------
\* graph.ts: cycle detection and topological order
\* ------------------------------------------------------------------------
\* the characters of module names in increasing UTF-16 code unit order, the
\* order Array.prototype.sort compares strings by
CodeUnitOrder ==
    <<"\t", "\n", "\r", " ", "\"", "'", "(", ")", ",", "-", ".", "/",
      "0", "1", "2", "3", "4", "5", "6", "7", "8", "9", "=",
      "A", "B", "C", "D", "E", "F", "G", "H", "I", "J", "K", "L", "M",
      "N", "O", "P", "Q", "R", "S", "T", "U", "V", "W", "X", "Y", "Z",
      "[", "\\", "]", "_",
      "a", "b", "c", "d", "e", "f", "g", "h", "i", "j", "k", "l", "m",
      "n", "o", "p", "q", "r", "s", "t", "u", "v", "w", "x", "y", "z">>

codeUnit(c) == CHOOSE i \in 1..Len(CodeUnitOrder) : CodeUnitOrder[i] = c

RECURSIVE stringLess(_, _)
\* a < b on strings
stringLess(a, b) ==
    IF b = <<>> THEN FALSE
    ELSE IF a = <<>> THEN TRUE
    ELSE IF Head(a) = Head(b) THEN stringLess(Tail(a), Tail(b))
    ELSE codeUnit(Head(a)) < codeUnit(Head(b))

RECURSIVE insertSorted(_, _)
insertSorted(sorted, s) ==
    IF sorted = <<>> THEN <<s>>
    ELSE IF stringLess(s, Head(sorted)) THEN <<s>> \o sorted
    ELSE <<Head(sorted)>> \o insertSorted(Tail(sorted), s)

RECURSIVE sortStrings(_)
\* [...names].sort()
sortStrings(names) ==
    IF names = <<>> THEN <<>>
    ELSE insertSorted(sortStrings(SubSeq(names, 1, Len(names) - 1)), names[Len(names)])

normalizeCycleKey(cycle) ==
    JoinWith(sortStrings(SubSeq(cycle, 1, Len(cycle) - 1)), <<",">>)

\* path.indexOf(dep) as a 1-based position
PositionOf(seq, x) == CHOOSE i \in 1..Len(seq) : seq[i] = x /\ \A j \in 1..(i - 1) : seq[j] # x

\* lines 312-319: the cycle closed by the edge to dep, kept unless a cycle with
\* the same key was found before
recordCycle(st, cycle) ==
    IF normalizeCycleKey(cycle) \notin st.seenCycleKeys
    THEN [st EXCEPT !.seenCycleKeys = @ \cup {normalizeCycleKey(cycle)},
                    !.foundCycles = Append(@, cycle)]
    ELSE st

RECURSIVE dfs(_, _, _)
\* a faulty loop body that takes an edge from a module to itself for no cycle
dfsEdgeSkipSelf(modules, st, dep) ==
    IF dep = st.path[Len(st.path)] THEN st
    ELSE IF dep \notin st.visited THEN dfs(modules, st, dep)
    ELSE IF dep \in st.recursionStack
    THEN recordCycle(st, Append(SubSeq(st.path, PositionOf(st.path, dep), Len(st.path)),
                                dep))
    ELSE st

\* the body of the loop `for (const dep of node.dependencies)` inside dfs
dfsEdge(modules, st, dep) ==
    IF dep \notin st.visited THEN dfs(modules, st, dep)
    ELSE IF dep \in st.recursionStack
    THEN recordCycle(st, Append(SubSeq(st.path, PositionOf(st.path, dep), Len(st.path)),
                                dep))
    ELSE st

RECURSIVE dfsDependencies(_, _, _, _)
\* the loop over the dependencies of moduleName, resumed at the k-th
dfsDependencies(modules, st, moduleName, k) ==
    IF k > Len(modules[moduleName].dependencies) THEN st
    ELSE dfsDependencies(modules,
                         dfsEdge(modules, st, modules[moduleName].dependencies[k]),
                         moduleName, k + 1)

\* lines 324-325: path.pop() and recursionStack.delete(moduleName)
dfsLeave(st, moduleName) ==
    [st EXCEPT !.path = SubSeq(@, 1, Len(@) - 1),
               !.recursionStack = @ \ {moduleName}]

\* lines 302-304
dfsEnter(st, moduleName) ==
    [st EXCEPT !.visited = @ \cup {moduleName},
               !.recursionStack = @ \cup {moduleName},
               !.path = Append(@, moduleName)]

dfs(modules, st, moduleName) ==
    dfsLeave(IF moduleName \in DOMAIN modules
             THEN dfsDependencies(modules, dfsEnter(st, moduleName), moduleName, 1)
             ELSE dfsEnter(st, moduleName),
             moduleName)

RECURSIVE dfsFromEachKey(_, _, _, _)
\* the loop `for (const moduleName of modules.keys())`
dfsFromEachKey(modules, keys, st, k) ==
    IF k > Len(keys) THEN st
    ELSE IF keys[k] \notin st.visited
    THEN dfsFromEachKey(modules, keys, dfs(modules, st, keys[k]), k + 1)
    ELSE dfsFromEachKey(modules, keys, st, k + 1)

\* the cycles detectCircularDependencies collects; it throws
\* CIRCULAR_DEPENDENCY { cycles } when the list is not empty
foundCycles(modules, keys) ==
    dfsFromEachKey(modules, keys,
                   [visited |-> {}, recursionStack |-> {}, path |-> <<>>,
                    foundCycles |-> <<>>, seenCycleKeys |-> {}],
                   1).foundCycles

\* the MoonpackError of lines 334-344, NoError when no cycle was found
circularDependency(cycles) ==
    IF Len(cycles) > 0
    THEN [NoError EXCEPT !.code = "CIRCULAR_DEPENDENCY", !.cycles = cycles]
    ELSE NoError

detectCircularDependencies(modules, keys) == circularDependency(foundCycles(modules, keys))

RECURSIVE visit(_, _, _)
RECURSIVE visitDependencies(_, _, _, _)
RECURSIVE visitDependenciesBackwards(_, _, _, _)
\* a faulty loop that takes the dependencies last to first
visitDependenciesBackwards(modules, st, moduleName, k) ==
    IF k > Len(modules[moduleName].dependencies) THEN st
    ELSE visitDependenciesBackwards(
             modules,
             visit(modules, st,
                   modules[moduleName].dependencies[
                       Len(modules[moduleName].dependencies) + 1 - k]),
             moduleName, k + 1)

\* the loop `for (const dep of node.dependencies)` inside visit
visitDependencies(modules, st, moduleName, k) ==
    IF k > Len(modules[moduleName].dependencies) THEN st
    ELSE visitDependencies(modules,
                           visit(modules, st, modules[moduleName].dependencies[k]),
                           moduleName, k + 1)

\* a faulty push that puts the module at the front of sorted
visitLeaveAtFront(st, moduleName) == [st EXCEPT !.sorted = <<moduleName>> \o @]

\* line 368: sorted.push(moduleName)
visitLeave(st, moduleName) == [st EXCEPT !.sorted = Append(@, moduleName)]

\* a faulty entry that forgets to mark the module visited
visitEnterForget(st, moduleName) == st

\* line 359: visited.add(moduleName)
visitEnter(st, moduleName) == [st EXCEPT !.visited = @ \cup {moduleName}]

\* a faulty visit that pushes a module before it visits its dependencies
visitPushFirst(modules, st, moduleName) ==
    IF moduleName \in st.visited THEN st
    ELSE IF moduleName \in DOMAIN modules
    THEN visitDependencies(modules, visitLeave(visitEnter(st, moduleName), moduleName),
                           moduleName, 1)
    ELSE visitLeave(visitEnter(st, moduleName), moduleName)

visit(modules, st, moduleName) ==
    IF moduleName \in st.visited THEN st
    ELSE visitLeave(IF moduleName \in DOMAIN modules
                    THEN visitDependencies(modules, visitEnter(st, moduleName),
                                           moduleName, 1)
                    ELSE visitEnter(st, moduleName),
                    moduleName)

topologicalSort(modules, entryModuleName) ==
    visit(modules, [sorted |-> <<>>, visited |-> {}], entryModuleName).sorted

\* ------------------------------------------------------------------------
\* parser.ts: autoLocalizeFunctions
\* ------------------------------------------------------------------------
Letters ==
    {"a", "b", "c", "d", "e", "f", "g", "h", "i", "j", "k", "l", "m",
     "n", "o", "p", "q", "r", "s", "t", "u", "v", "w", "x", "y", "z",
     "A", "B", "C", "D", "E", "F", "G", "H", "I", "J", "K", "L", "M",
     "N", "O", "P", "Q", "R", "S", "T", "U", "V", "W", "X", "Y", "Z"}
Digits == {"0", "1", "2", "3", "4", "5", "6", "7", "8", "9"}
IdentStart == Letters \cup {"_"}
IdentChar == IdentStart \cup Digits

KwFunction == <<"f", "u", "n", "c", "t", "i", "o", "n">>
KwLocal == <<"l", "o", "c", "a", "l">>
KwLocalSpace == <<"l", "o", "c", "a", "l", " ">>

RECURSIVE skipIdent(_, _)
skipIdent(source, i) ==
    IF At(source, i) \in IdentChar THEN skipIdent(source, i + 1) ELSE i

RECURSIVE skipSpaceBack(_, _)
\* the offset just after the last non-blank character before offset i
skipSpaceBack(source, i) ==
    IF i > 0 /\ At(source, i - 1) \in WhiteSpace THEN skipSpaceBack(source, i - 1) ELSE i

\* \bfunction\s+<ident>\s*\( anchored at offset i, <ident> being
\* [A-Za-z_][A-Za-z0-9_]*
matchFunctionDeclaration(source, i) ==
    /\ StartsWithAt(source, i, KwFunction)
    /\ At(source, i - 1) \notin IdentChar
    /\ At(source, i + Len(KwFunction)) \in WhiteSpace
    /\ \E n \in {skipSpace(source, i + Len(KwFunction))} :
          /\ At(source, n) \in IdentStart
          /\ At(source, skipSpace(source, skipIdent(source, n))) = "("

\* a faulty test that takes no declaration for local already
neverPrecededByLocal(source, i) == FALSE

\* the declaration at offset i already follows the token `local`
precededByLocal(source, i) ==
    \E j \in {skipSpaceBack(source, i)} :
       /\ j < i
       /\ StartsWithAt(source, j - Len(KwLocal), KwLocal)
       /\ At(source, j - Len(KwLocal) - 1) \notin IdentChar

RECURSIVE insertLocalAt(_, _, _)
\* the edits applied back to front: `local ` inserted at every offset of sites
\* that is at most i
insertLocalAt(source, sites, i) ==
    IF i < 0 THEN source
    ELSE IF i \in sites
    THEN insertLocalAt(Substring(source, 0, i) \o KwLocalSpace \o SubstringFrom(source, i),
                       sites, i - 1)
    ELSE insertLocalAt(source, sites, i - 1)

\* the offsets autoLocalizeFunctions edits
localizeSites(source, ranges) ==
    {i \in 0..(Len(source) - 1) :
        /\ matchFunctionDeclaration(source, i)
        /\ ~isInsideRange(i, ranges)
        /\ ~precededByLocal(source, i)}

localizeAt(source, sites) ==
    IF sites = {} THEN source ELSE insertLocalAt(source, sites, SetMax(sites))

\* function <ident>(...) at the top of a module becomes local function
\* <ident>(...): declarations inside strings or comments, dotted and method
\* names, anonymous functions and declarations already local stay as written
autoLocalizeFunctions(source) ==
    localizeAt(source, localizeSites(source, excludedRanges(source)))

\* ------------------------------------------------------------------------
\* codegen.ts: bundle emission
\* ------------------------------------------------------------------------
Newline == <<"\n">>

RECURSIVE escapeLuaString(_)
\* backslash, single quote, line feed and carriage return are escaped
escapeLuaString(str) ==
    IF str = <<>> THEN <<>>
    ELSE LET c == Head(str)
             esc == IF c = "\\" THEN <<"\\", "\\">>
                    ELSE IF c = "'" THEN <<"\\", "'">>
                    ELSE IF c = "\n" THEN <<"\\", "n">>
                    ELSE IF c = "\r" THEN <<"\\", "r">>
                    ELSE <<c>>
         IN esc \o escapeLuaString(Tail(str))

BuiltWith ==
    <<"-", "-", " ", "B", "u", "i", "l", "t", " ", "w", "i", "t", "h", " ",
      "m", "o", "o", "n", "p", "a", "c", "k">>
ScriptNameOpen ==
    <<"s", "c", "r", "i", "p", "t", "_", "n", "a", "m", "e", "(", "'">>
ScriptVersionOpen ==
    <<"s", "c", "r", "i", "p", "t", "_", "v", "e", "r", "s", "i", "o", "n",
      "(", "'">>
CallClose == <<"'", ")">>

ScriptAuthorOpen ==
    <<"s", "c", "r", "i", "p", "t", "_", "a", "u", "t", "h", "o", "r", "(", "'">>
ScriptAuthorsOpen ==
    <<"s", "c", "r", "i", "p", "t", "_", "a", "u", "t", "h", "o", "r", "s", "(">>
ScriptDescriptionOpen ==
    <<"s", "c", "r", "i", "p", "t", "_", "d", "e", "s", "c", "r", "i", "p", "t",
      "i", "o", "n", "(", "'">>
ScriptUrlOpen ==
    <<"s", "c", "r", "i", "p", "t", "_", "u", "r", "l", "(", "'">>

\* the author of a configuration: absent, one string, or an array of strings
NoAuthor == [isArray |-> FALSE, text |-> <<>>, items |-> <<>>]

\* `'${escapeLuaString(a)}'` for an author a
quotedAuthor(a) == <<"'">> \o escapeLuaString(a) \o <<"'">>

\* lines 527-534: an array is truthy also when empty, a string only when it
\* is not empty
authorLines(author) ==
    IF author.isArray
    THEN << ScriptAuthorsOpen
               \o JoinWith([k \in 1..Len(author.items) |-> quotedAuthor(author.items[k])],
                           <<",", " ">>)
               \o <<")">> >>
    ELSE IF Len(author.text) > 0
    THEN << ScriptAuthorOpen \o escapeLuaString(author.text) \o CallClose >>
    ELSE <<>>

\* `if (value) lines.push(open + escapeLuaString(value) + "')")` for a string
\* that is the empty string when the configuration does not give it
optionalLine(open, value) ==
    IF Len(value) > 0 THEN << open \o escapeLuaString(value) \o CallClose >> ELSE <<>>

\* generateHeader: version, description and url are the empty string when the
\* configuration does not give them, author is NoAuthor
generateHeader(config) ==
    JoinWith(<< <<"-", "-", " ">> \o config.name
                    \o (IF Len(config.version) > 0
                        THEN <<" ", "v">> \o config.version
                        ELSE <<>>),
                BuiltWith,
                <<>>,
                ScriptNameOpen \o escapeLuaString(config.name) \o CallClose >>
             \o optionalLine(ScriptVersionOpen, config.version)
             \o authorLines(config.author)
             \o optionalLine(ScriptDescriptionOpen, config.description)
             \o optionalLine(ScriptUrlOpen, config.url),
             Newline)

\* the runtime shim: __modules, __loaded and __load(name)
generateModuleLoader ==
    <<"l", "o", "c", "a", "l", " ", "_", "_", "m", "o", "d", "u", "l", "e",
      "s", " ", "=", " ", "{", "}", "\n", "l", "o", "c", "a", "l", " ",
      "_", "_", "l", "o", "a", "d", "e", "d", " ", "=", " ", "{", "}",
      "\n", "\n", "l", "o", "c", "a", "l", " ", "f", "u", "n", "c", "t",
      "i", "o", "n", " ", "_", "_", "l", "o", "a", "d", "(", "n", "a", "m",
      "e", ")", "\n", " ", " ", " ", " ", "i", "f", " ", "_", "_", "l",
      "o", "a", "d", "e", "d", "[", "n", "a", "m", "e", "]", " ", "t", "h",
      "e", "n", " ", "r", "e", "t", "u", "r", "n", " ", "_", "_", "l", "o",
      "a", "d", "e", "d", "[", "n", "a", "m", "e", "]", " ", "e", "n", "d",
      "\n", " ", " ", " ", " ", "i", "f", " ", "_", "_", "m", "o", "d",
      "u", "l", "e", "s", "[", "n", "a", "m", "e", "]", " ", "t", "h", "e",
      "n", "\n", " ", " ", " ", " ", " ", " ", " ", " ", "_", "_", "l",
      "o", "a", "d", "e", "d", "[", "n", "a", "m", "e", "]", " ", "=", " ",
      "_", "_", "m", "o", "d", "u", "l", "e", "s", "[", "n", "a", "m", "e",
      "]", "(", ")", "\n", " ", " ", " ", " ", " ", " ", " ", " ", "r",
      "e", "t", "u", "r", "n", " ", "_", "_", "l", "o", "a", "d", "e", "d",
      "[", "n", "a", "m", "e", "]", "\n", " ", " ", " ", " ", "e", "n",
      "d", "\n", " ", " ", " ", " ", "r", "e", "t", "u", "r", "n", " ",
      "r", "e", "q", "u", "i", "r", "e", "(", "n", "a", "m", "e", ")",
      "\n", "e", "n", "d">>

Indent == <<" ", " ", " ", " ">>

\* .map((line) => (line.length > 0 ? indent + line : line))
indentLines(lines, indent) ==
    [k \in 1..Len(lines) |-> IF Len(lines[k]) > 0 THEN indent \o lines[k] ELSE lines[k]]

indentCode(code, indent) == JoinWith(indentLines(Split(code, "\n"), indent), Newline)

WrapperOpen == <<"_", "_", "m", "o", "d", "u", "l", "e", "s", "[", "\"">>
WrapperAssign ==
    <<"\"", "]", " ", "=", " ", "f", "u", "n", "c", "t", "i", "o", "n",
      "(", ")">>
WrapperEnd == <<"e", "n", "d">>

\* a faulty wrapper that emits the module source as written
generateModuleWrapperAsWritten(moduleName, source, requireMappings) ==
    WrapperOpen \o moduleName \o WrapperAssign \o Newline
        \o indentCode(transformRequiresToLoad(source, requireMappings), Indent)
        \o Newline \o WrapperEnd

generateModuleWrapper(moduleName, source, requireMappings) ==
    WrapperOpen \o moduleName \o WrapperAssign \o Newline
        \o indentCode(transformRequiresToLoad(autoLocalizeFunctions(source),
                                              requireMappings),
                      Indent)
        \o Newline \o WrapperEnd

\* a faulty filter that keeps the entry
everyModule(graph) == graph.moduleOrder

\* graph.moduleOrder.filter((name) => name !== graph.entryPoint.moduleName)
nonEntryModules(graph) ==
    SelectSeq(graph.moduleOrder, LAMBDA name : name # graph.entryPoint)

\* the lines pushed by the loop over nonEntryModules: a wrapper and an empty
\* line per module
wrapperLines(graph, names) ==
    Concat([k \in 1..Len(names) |->
               << generateModuleWrapper(names[k], graph.modules[names[k]].source,
                                        graph.modules[names[k]].requireMappings),
                  <<>> >>])

\* the `lines` array of generateBundle before it is joined
bundleLines(graph, config) ==
    << generateHeader(config), <<>>, generateModuleLoader, <<>> >>
        \o wrapperLines(graph, nonEntryModules(graph))
        \o << transformRequiresToLoad(graph.modules[graph.entryPoint].source,
                                     graph.modules[graph.entryPoint].requireMappings) >>

generateBundle(graph, config) == JoinWith(bundleLines(graph, config), Newline)

\* ------------------------------------------------------------------------
\* lint.ts
\* ------------------------------------------------------------------------
\* the host callbacks
MOONLOADER_EVENTS ==
    { <<"m", "a", "i", "n">>,
      <<"o", "n", "E", "x", "i", "t", "S", "c", "r", "i", "p", "t">>,
      <<"o", "n", "Q", "u", "i", "t", "G", "a", "m", "e">>,
      <<"o", "n", "S", "c", "r", "i", "p", "t", "L", "o", "a", "d">>,
      <<"o", "n", "S", "c", "r", "i", "p", "t", "T", "e", "r", "m", "i",
        "n", "a", "t", "e">>,
      <<"o", "n", "S", "y", "s", "t", "e", "m", "I", "n", "i", "t", "i",
        "a", "l", "i", "z", "e", "d">>,
      <<"o", "n", "S", "c", "r", "i", "p", "t", "M", "e", "s", "s", "a",
        "g", "e">>,
      <<"o", "n", "S", "y", "s", "t", "e", "m", "M", "e", "s", "s", "a",
        "g", "e">>,
      <<"o", "n", "R", "e", "c", "e", "i", "v", "e", "P", "a", "c", "k",
        "e", "t">>,
      <<"o", "n", "R", "e", "c", "e", "i", "v", "e", "R", "p", "c">>,
      <<"o", "n", "S", "e", "n", "d", "P", "a", "c", "k", "e", "t">>,
      <<"o", "n", "S", "e", "n", "d", "R", "p", "c">>,
      <<"o", "n", "W", "i", "n", "d", "o", "w", "M", "e", "s", "s", "a",
        "g", "e">>,
      <<"o", "n", "S", "t", "a", "r", "t", "N", "e", "w", "G", "a", "m",
        "e">>,
      <<"o", "n", "L", "o", "a", "d", "G", "a", "m", "e">>,
      <<"o", "n", "S", "a", "v", "e", "G", "a", "m", "e">> }

\* the order of REQUIRE_ASSIGNMENT_PATTERNS: the require of the first is the
\* standard pattern of REQUIRE_PATTERNS, that of the second the compact one
AssignmentTypes == <<"standard", "compact">>

\* the match (\w+)\s*=\s*<require> that starts at offset i, its name at
\* offset n and its require call being m
assignedRequire(source, i, n, m) ==
    IF ~m.ok THEN NoMatch
    ELSE [ok |-> TRUE, index |-> i, end |-> m.end,
          varName |-> Substring(source, n, skipIdent(source, n)),
          moduleName |-> m.moduleName]

\* (\w+)\s*=\s*require... with the name expected at offset n
matchAssignedName(type, source, i, n) ==
    IF At(source, n) \notin IdentChar THEN NoMatch
    ELSE Only({ IF At(source, eq) # "=" THEN NoMatch
                ELSE assignedRequire(source, i, n,
                                     matchAt(type, source, skipSpace(source, eq + 1)))
                : eq \in {skipSpace(source, skipIdent(source, n))} })

\* (?:local\s+) anchored at offset i, then the rest of the pattern
matchBehindLocal(type, source, i) ==
    IF StartsWithAt(source, i, KwLocal) /\ At(source, i + Len(KwLocal)) \in WhiteSpace
    THEN matchAssignedName(type, source, i, skipSpace(source, i + Len(KwLocal)))
    ELSE NoMatch

\* a pattern of REQUIRE_ASSIGNMENT_PATTERNS anchored at offset i: with the
\* optional prefix first, without it when that fails
matchRequireAssignment(type, source, i) ==
    Only({ IF behindLocal.ok THEN behindLocal
           ELSE matchAssignedName(type, source, i, i)
           : behindLocal \in {matchBehindLocal(type, source, i)} })

\* regex.exec(source): the leftmost match at or after lastIndex
execRequireAssignment(type, source, lastIndex) ==
    Only({ IF starts = {} THEN NoMatch
           ELSE matchRequireAssignment(type, source, SetMin(starts))
           : starts \in {{i \in lastIndex..(Len(source) - 1) :
                             matchRequireAssignment(type, source, i).ok}} })

isExternalModule(moduleName) ==
    /\ ~StartsWithAt(moduleName, 0, <<".", "/">>)
    /\ ~StartsWithAt(moduleName, 0, <<".", ".", "/">>)

\* lines 69-76: the match is kept when its import is external and its pair
\* of names is new
keepExternalVar(results, m) ==
    IF /\ m.varName # <<>>
       /\ m.moduleName # <<>>
       /\ isExternalModule(m.moduleName)
       /\ \A k \in 1..Len(results) :
             ~(results[k].varName = m.varName /\ results[k].externalModule = m.moduleName)
    THEN Append(results, [varName |-> m.varName, externalModule |-> m.moduleName])
    ELSE results

RECURSIVE externalVarsOfPattern(_, _, _, _)
\* the while loop of lines 68-77 for one pattern, from lastIndex on
externalVarsOfPattern(type, source, results, lastIndex) ==
    Only({ IF ~m.ok THEN results
           ELSE externalVarsOfPattern(type, source, keepExternalVar(results, m), m.end)
           : m \in {execRequireAssignment(type, source, lastIndex)} })

parseExternalRequireAssignments(source) ==
    externalVarsOfPattern(AssignmentTypes[2], source,
                          externalVarsOfPattern(AssignmentTypes[1], source, <<>>, 0),
                          0)

RECURSIVE skipPath(_, _)
\* (\.\w+)* : the offset behind the property path that starts at offset i
skipPath(source, i) ==
    IF At(source, i) = "." /\ At(source, i + 1) \in IdentChar
    THEN skipPath(source, skipIdent(source, i + 2))
    ELSE i

\* (v1|v2|...)(\.\w+)+ anchored at offset n: the alternatives that match
varsAt(varNames, source, n) ==
    {k \in 1..Len(varNames) :
        /\ StartsWithAt(source, n, varNames[k])
        /\ skipPath(source, n + Len(varNames[k])) > n + Len(varNames[k])}

\* the first match of <varName>(?:\.\w+)+ in fullMatch, line 109
propertyPathMatch(fullMatch, varName) ==
    Only({ IF starts = {} THEN <<>>
           ELSE Substring(fullMatch, SetMin(starts),
                          skipPath(fullMatch, SetMin(starts) + Len(varName)))
           : starts \in {{j \in 0..(Len(fullMatch) - 1) :
                             varsAt(<<varName>>, fullMatch, j) # {}}} })

\* the match that starts at offset i, whose variable is the k-th alternative
\* at offset n and whose path is followed by \s* and the character closing
propertyMatch(varNames, source, i, n, k, closing) ==
    Only({ IF At(source, close) # closing THEN NoMatch
           ELSE [ok |-> TRUE, index |-> i, end |-> close + 1,
                 varName |-> varNames[k],
                 fullMatch |-> Substring(source, i, close + 1)]
           : close \in {skipSpace(source, skipPath(source, n + Len(varNames[k])))} })

\* (v1|v2|...)(\.\w+)+\s*<closing> with the variable expected at offset n
matchPropertyPath(varNames, source, i, n, closing) ==
    Only({ IF alternatives = {} THEN NoMatch
           ELSE propertyMatch(varNames, source, i, n, SetMin(alternatives), closing)
           : alternatives \in {varsAt(varNames, source, n)} })

\* the order of `patterns`, lines 96-99
PropertyPatterns == <<"assignment", "declaration">>

\* a pattern of `patterns` anchored at offset i
matchPropertyAssignment(pattern, varNames, source, i) ==
    IF pattern = "assignment" THEN matchPropertyPath(varNames, source, i, i, "=")
    ELSE IF /\ StartsWithAt(source, i, KwFunction)
            /\ At(source, i + Len(KwFunction)) \in WhiteSpace
    THEN matchPropertyPath(varNames, source, i,
                           skipSpace(source, i + Len(KwFunction)), "(")
    ELSE NoMatch

\* pattern.exec(source): the leftmost match at or after lastIndex
execPropertyAssignment(pattern, varNames, source, lastIndex) ==
    Only({ IF starts = {} THEN NoMatch
           ELSE matchPropertyAssignment(pattern, varNames, source, SetMin(starts))
           : starts \in {{i \in lastIndex..(Len(source) - 1) :
                             matchPropertyAssignment(pattern, varNames, source, i).ok}} })

\* varToModule.get(varName): of the entries of the same name the last one
\* stays in the Map
varToModule(externalVars, varName) ==
    externalVars[SetMax({k \in 1..Len(externalVars) :
                            externalVars[k].varName = varName})].externalModule

getLineNumber(source, position) ==
    1 + Cardinality({i \in 0..(position - 1) : i < Len(source) /\ At(source, i) = "\n"})

\* lines 105-126: the ExternalAssignment of a match
externalAssignment(source, filePath, externalVars, m) ==
    [moduleName |-> varToModule(externalVars, m.varName),
     filePath |-> filePath,
     line |-> getLineNumber(source, m.index),
     varName |-> m.varName,
     propertyPath |-> propertyPathMatch(m.fullMatch, m.varName)]

RECURSIVE assignmentsOfPattern(_, _, _, _, _, _)
\* the while loop of lines 104-127 for one pattern, from lastIndex on
assignmentsOfPattern(pattern, source, filePath, externalVars, results, lastIndex) ==
    Only({ IF ~m.ok THEN results
           ELSE assignmentsOfPattern(pattern, source, filePath, externalVars,
                                     Append(results,
                                            externalAssignment(source, filePath,
                                                               externalVars, m)),
                                     m.end)
           : m \in {execPropertyAssignment(pattern,
                                           [k \in 1..Len(externalVars) |->
                                               externalVars[k].varName],
                                           source, lastIndex)} })

parseExternalPropertyAssignments(source, filePath, externalVars) ==
    IF Len(externalVars) = 0 THEN <<>>
    ELSE assignmentsOfPattern(PropertyPatterns[2], source, filePath, externalVars,
                              assignmentsOfPattern(PropertyPatterns[1], source, filePath,
                                                   externalVars, <<>>, 0),
                              0)

\* /\bfunction\s+([a-zA-Z_][a-zA-Z0-9_]*)\s*\(/ anchored at offset i, the name
\* expected at offset n
matchEventName(source, i, n) ==
    IF At(source, n) \notin IdentStart THEN NoMatch
    ELSE Only({ IF At(source, open) # "(" THEN NoMatch
                ELSE [ok |-> TRUE, index |-> i, end |-> open + 1,
                      funcName |-> Substring(source, n, skipIdent(source, n))]
                : open \in {skipSpace(source, skipIdent(source, n))} })

matchEventDeclaration(source, i) ==
    IF /\ StartsWithAt(source, i, KwFunction)
       /\ At(source, i - 1) \notin IdentChar
       /\ At(source, i + Len(KwFunction)) \in WhiteSpace
    THEN matchEventName(source, i, skipSpace(source, i + Len(KwFunction)))
    ELSE NoMatch

\* pattern.exec(source): the leftmost match at or after lastIndex
execEventDeclaration(source, lastIndex) ==
    Only({ IF starts = {} THEN NoMatch
           ELSE matchEventDeclaration(source, SetMin(starts))
           : starts \in {{i \in lastIndex..(Len(source) - 1) :
                             matchEventDeclaration(source, i).ok}} })

\* the number of characters before a declaration that are searched for `local`
LocalWindow == 50

\* /local\s*$/.test(beforeMatch)
endsWithLocal(beforeMatch) ==
    EndsWith(Substring(beforeMatch, 0, skipSpaceBack(beforeMatch, Len(beforeMatch))),
             KwLocal)

\* lines 155-170: the match is reported unless it starts in a string or a
\* comment, names no host callback or follows `local`
keepEvent(source, filePath, ranges, results, m) ==
    IF isInsideRange(m.index, ranges) THEN results
    ELSE IF m.funcName # <<>> /\ m.funcName \in MOONLOADER_EVENTS
    THEN IF endsWithLocal(Substring(source,
                                    IF m.index - LocalWindow > 0
                                    THEN m.index - LocalWindow ELSE 0,
                                    m.index))
         THEN results
         ELSE Append(results, [eventName |-> m.funcName, filePath |-> filePath,
                               line |-> getLineNumber(source, m.index)])
    ELSE results

RECURSIVE eventsFrom(_, _, _, _, _)
\* the while loop of lines 154-172, from lastIndex on
eventsFrom(source, filePath, ranges, results, lastIndex) ==
    Only({ IF ~m.ok THEN results
           ELSE eventsFrom(source, filePath, ranges,
                           keepEvent(source, filePath, ranges, results, m), m.end)
           : m \in {execEventDeclaration(source, lastIndex)} })

parseMoonLoaderEvents(source, filePath) ==
    eventsFrom(source, filePath, excludedRanges(source), <<>>, 0)

\* lines 183-185: the assignments of one module
moduleAssignments(node) ==
    parseExternalPropertyAssignments(node.source, node.filePath,
                                     parseExternalRequireAssignments(node.source))

\* lines 187-191: the events of one module, none for the entry
moduleEvents(graph, moduleName) ==
    IF moduleName = graph.entryPoint THEN <<>>
    ELSE parseMoonLoaderEvents(graph.modules[moduleName].source,
                               graph.modules[moduleName].filePath)

\* the keys of assignmentsByPath in the order the Map holds them: by first
\* occurrence
RECURSIVE pathsInOrder(_, _)
pathsInOrder(assignments, paths) ==
    IF assignments = <<>> THEN paths
    ELSE pathsInOrder(Tail(assignments),
                      IF \E k \in 1..Len(paths) : paths[k] = Head(assignments).propertyPath
                      THEN paths
                      ELSE Append(paths, Head(assignments).propertyPath))

\* assignmentsByPath.get(propertyPath)
assignmentsByPath(assignments, propertyPath) ==
    SelectSeq(assignments, LAMBDA a : a.propertyPath = propertyPath)

\* a faulty test that counts assignments, not files
isDuplicateInOneFile(assignments) == Len(assignments) > 1

\* lines 203-208: a path is reported when it has more than one assignment,
\* in more than one file
isDuplicate(assignments) ==
    /\ Len(assignments) > 1
    /\ Cardinality({assignments[k].filePath : k \in 1..Len(assignments)}) > 1

\* lines 194-209
duplicateAssignments(allAssignments) ==
    Only({ [k \in 1..Len(warned) |->
               [propertyPath |-> warned[k],
                assignments |-> assignmentsByPath(allAssignments, warned[k])]]
           : warned \in {SelectSeq(pathsInOrder(allAssignments, <<>>),
                                   LAMBDA p :
                                      isDuplicate(assignmentsByPath(allAssignments, p)))} })

\* lintGraph: names is the order in which graph.modules holds its keys
lintGraph(graph, names) ==
    [duplicateAssignments |->
        duplicateAssignments(Concat([k \in 1..Len(names) |->
                                        moduleAssignments(graph.modules[names[k]])])),
     moonloaderEventsInModules |->
        Concat([k \in 1..Len(names) |-> moduleEvents(graph, names[k])])]

\* ------------------------------------------------------------------------
\* The state of the three specifications
\* ------------------------------------------------------------------------
VARIABLES
    files,           \* the project on disk: path -> content
    saves,           \* the changes made to files while the build runs
    pc,              \* position of the build
    modules,         \* buildDependencyGraph: the `modules` map being filled
    keys,            \* insertion order of the keys of `modules`
    reads,           \* the paths handed to readTextFile, in order
    walk,            \* buildDependencyGraph: the pending call and its callers
    turns,           \* buildDependencyGraph: the awaited calls that have completed
    error,           \* the MoonpackError thrown, NoError when none
    graph,           \* the DependencyGraph returned, NoGraph when none
    lint,            \* the LintResult lintGraph returned, NoLint when none
    bundle,          \* the text generateBundle returned
    buffer,          \* a source buffer handed to the parser and the rewriter
    mapping,         \* the bundled import names of buffer: name -> module id
    textPc,          \* position of the parser/rewriter run
    parsed,          \* parseRequireStatements(buffer)
    rewritten,       \* transformRequiresToLoad(buffer, mapping)
    localized,       \* autoLocalizeFunctions(buffer)
    relocalized,     \* autoLocalizeFunctions(localized)
    __modules,       \* runtime: the registered thunks, name -> value returned
    __loaded,        \* runtime: the memo table, name -> value ("nil" when unset)
    invocations,     \* runtime: how often each thunk has run
    returned,        \* runtime: the value the last __load call returned
    calls,           \* runtime: number of __load calls made
    configFile,      \* build: what loadConfig finds on disk
    output,          \* build: the output file on disk, NoFile when absent
    writes,          \* build: number of writeTextFile calls made
    watchPc,         \* watch: position of watchProject
    now,             \* watch: the clock, in milliseconds
    debounce,        \* watch: the timer of the change handler
    events,          \* watch: the events the watcher delivered, in order
    builds,          \* watch: the runBuild calls made, in order
    reports          \* watch: the errors shown, in order

pipelineVars == <<files, saves, pc, modules, keys, reads, walk, turns, error, graph, lint, bundle>>

textVars == <<buffer, mapping, textPc, parsed, rewritten, localized, relocalized>>

runtimeVars == <<__modules, __loaded, invocations, returned, calls>>

watchVars == <<watchPc, now, debounce, events, builds, reports>>

hostVars == <<configFile, output, writes, watchVars>>

vars == <<pipelineVars, textVars, runtimeVars, hostVars>>

\* ------------------------------------------------------------------------
\* The build pipeline (commands/build.ts) as a state machine
\* ------------------------------------------------------------------------
SourceRoot == <<"/", "s", "r", "c">>
EntryPath == <<"/", "s", "r", "c", "/", "a", ".", "l", "u", "a">>
FilePaths ==
    << EntryPath,
       <<"/", "s", "r", "c", "/", "b", ".", "l", "u", "a">>,
       <<"/", "s", "r", "c", "/", "c", ".", "l", "u", "a">>,
       <<"/", "s", "r", "c", "/", "d", "/", "i", "n", "i", "t", ".", "l",
         "u", "a">> >>

\* the import names written into the files: four relative names, one relative
\* name that leaves the source root from a top-level file, one external name
ImportNames ==
    << <<".", "/", "a">>,
       <<".", "/", "b">>,
       <<".", "/", "c">>,
       <<".", "/", "d">>,
       <<".", ".", "/", "b">>,
       <<"s", "a", "m", "p">> >>

\* the statement each import name is written as (one per line)
ImportLines ==
    << <<"r", "e", "q", "u", "i", "r", "e", "(", "'", ".", "/", "a", "'", ")">>,
       <<"r", "e", "q", "u", "i", "r", "e", "(", "\"", ".", "/", "b", "\"",
         ")">>,
       <<"r", "e", "q", "u", "i", "r", "e", " ", "'", ".", "/", "c", "'">>,
       <<"p", "c", "a", "l", "l", "(", "r", "e", "q", "u", "i", "r", "e",
         ",", " ", "\"", ".", "/", "d", "\"", ")">>,
       <<"r", "e", "q", "u", "i", "r", "e", "(", "'", ".", ".", "/", "b",
         "'", ")">>,
       <<"r", "e", "q", "u", "i", "r", "e", " ", "\"", "s", "a", "m", "p",
         "\"">> >>

Config ==
    [name |-> <<"t">>, version |-> <<>>, author |-> NoAuthor, description |-> <<>>,
     url |-> <<>>]

NoGraph == [entryPoint |-> <<>>, modules |-> EmptyMap, moduleOrder |-> <<>>]

NoLint == [duplicateAssignments |-> <<>>, moonloaderEventsInModules |-> <<>>]

\* the content of file f when the project's sites are (siteFile[k], siteName[k])
fileContent(siteFile, siteName, f) ==
    Concat([k \in 1..Len(siteFile) |->
               IF siteFile[k] = f THEN ImportLines[siteName[k]] \o Newline ELSE <<>>])

\* no build is running
PipelineIdle ==
    /\ files = EmptyMap
    /\ pc = "idle"
    /\ modules = EmptyMap
    /\ keys = <<>>
    /\ reads = <<>>
    /\ walk = NoWalk
    /\ turns = 0
    /\ saves = 0
    /\ error = NoError
    /\ graph = NoGraph
    /\ lint = NoLint
    /\ bundle = <<>>

\* no buffer is being rewritten
TextIdle ==
    /\ buffer = <<>>
    /\ mapping = EmptyMap
    /\ textPc = "idle"
    /\ parsed = <<>>
    /\ rewritten = <<>>
    /\ localized = <<>>
    /\ relocalized = <<>>

\* the output file is absent
NoFile == [exists |-> FALSE, content |-> <<>>]

\* a valid moonpack.json, and nothing written yet
\* no timer has been set: `let debounce = null`
NoTimer == [armed |-> FALSE, due |-> 0]

\* watchProject has not been called
WatchIdle ==
    /\ watchPc = "off"
    /\ now = 0
    /\ debounce = NoTimer
    /\ events = <<>>
    /\ builds = <<>>
    /\ reports = <<>>

HostIdle ==
    /\ configFile = "valid"
    /\ output = NoFile
    /\ writes = 0
    /\ WatchIdle

\* no bundle is running
RuntimeIdle ==
    /\ __modules = EmptyMap
    /\ __loaded = EmptyMap
    /\ invocations = EmptyMap
    /\ returned = "nil"
    /\ calls = 0

\* a project of four files holding at most MaxSites require statements
PipelineInit ==
    /\ \E n \in 0..MaxSites :
       \E siteFile \in [1..n -> 1..Len(FilePaths)] :
       \E siteName \in [1..n -> 1..Len(ImportNames)] :
          /\ \A k \in 1..(n - 1) : siteFile[k] <= siteFile[k + 1]
          /\ files = [p \in {FilePaths[f] : f \in 1..Len(FilePaths)} |->
                         fileContent(siteFile, siteName,
                                     CHOOSE f \in 1..Len(FilePaths) : FilePaths[f] = p)]
    /\ pc = "start"
    /\ modules = EmptyMap
    /\ keys = <<>>
    /\ reads = <<>>
    /\ walk = NoWalk
    /\ turns = 0
    /\ saves = 0
    /\ error = NoError
    /\ graph = NoGraph
    /\ lint = NoLint
    /\ bundle = <<>>
    /\ TextIdle
    /\ RuntimeIdle
    /\ HostIdle

\* buildDependencyGraph, lines 212-229, one turn at a time: the call it awaits
\* (readTextFile of line 215 or 278, fileExists of resolveModulePath) completes
\* and the code runs on to its next await.  pc = "start" is the call waiting
\* for the entry file
Discover ==
    /\ pc \in {"start", "discovering"}
    /\ \E st \in {discoveryStep(files, EntryPath, SourceRoot,
                                 IF pc = "start" THEN discoveryStarted
                                 ELSE [modules |-> modules, keys |-> keys,
                                       reads |-> reads, error |-> error,
                                       walk |-> walk])} :
          /\ modules' = st.modules
          /\ keys' = st.keys
          /\ reads' = st.reads
          /\ error' = st.error
          /\ walk' = st.walk
          /\ turns' = turns + 1
          /\ pc' = IF st.error.code # "NONE" THEN "failed"
                   ELSE IF st.walk.op = "none" THEN "discovered"
                   ELSE "discovering"
    /\ UNCHANGED <<files, saves, graph, lint, bundle, textVars, runtimeVars, hostVars>>

\* buildDependencyGraph, line 231
DetectCycles ==
    /\ pc = "discovered"
    /\ error' = detectCircularDependencies(modules, keys)
    /\ pc' = IF error'.code = "NONE" THEN "acyclic" ELSE "failed"
    /\ UNCHANGED <<files, saves, modules, keys, reads, walk, turns, graph, lint, bundle, textVars, runtimeVars, hostVars>>

\* buildDependencyGraph, lines 233-239: order the modules and return the graph
Sort ==
    /\ pc = "acyclic"
    /\ graph' = [entryPoint |-> keys[1],
                 modules |-> modules,
                 moduleOrder |-> topologicalSort(modules, keys[1])]
    /\ pc' = "graph"
    /\ UNCHANGED <<files, saves, modules, keys, reads, walk, turns, error, lint, bundle, textVars, runtimeVars, hostVars>>

\* the build command: the graph is linted before the bundle is generated
Lint ==
    /\ pc = "graph"
    /\ lint' = lintGraph(graph, keys)
    /\ pc' = "linted"
    /\ UNCHANGED <<files, saves, modules, keys, reads, walk, turns, error, graph, bundle, textVars, runtimeVars, hostVars>>

\* build.ts line 57
Generate ==
    /\ pc = "linted"
    /\ bundle' = generateBundle(graph, Config)
    /\ pc' = "bundled"
    /\ UNCHANGED <<files, saves, modules, keys, reads, walk, turns, error, graph, lint, textVars, runtimeVars, hostVars>>

PipelineNext == Discover \/ DetectCycles \/ Sort \/ Lint \/ Generate

Init == PipelineInit

Next == PipelineNext

Spec == Init /\ [][Next]_vars

\* the number of require statements in a project whose discovery is followed
\* to its end
MaxDiscoverySites == 3

\* a project of four files holding at most MaxDiscoverySites require
\* statements
DiscoveryInit ==
    /\ \E n \in 0..MaxDiscoverySites :
       \E siteFile \in [1..n -> 1..Len(FilePaths)] :
       \E siteName \in [1..n -> 1..Len(ImportNames)] :
          /\ \A k \in 1..(n - 1) : siteFile[k] <= siteFile[k + 1]
          /\ files = [p \in {FilePaths[f] : f \in 1..Len(FilePaths)} |->
                         fileContent(siteFile, siteName,
                                     CHOOSE f \in 1..Len(FilePaths) : FilePaths[f] = p)]
    /\ pc = "start"
    /\ modules = EmptyMap
    /\ keys = <<>>
    /\ reads = <<>>
    /\ walk = NoWalk
    /\ turns = 0
    /\ saves = 0
    /\ error = NoError
    /\ graph = NoGraph
    /\ lint = NoLint
    /\ bundle = <<>>
    /\ TextIdle
    /\ RuntimeIdle
    /\ HostIdle

\* the changes an editor makes to the project while one discovery runs
MaxSaves == 1

\* what an editor leaves in a file it saves: nothing, or one import
SavedContents ==
    { <<>>,
      ImportLines[3] \o Newline,
      ImportLines[6] \o Newline }

\* a file of the project is saved with another content, or created, while
\* buildDependencyGraph waits for one of its calls
SaveFile(path, content) ==
    /\ pc \in {"boot", "parsing", "start", "discovering"}
    /\ saves < MaxSaves
    /\ saves' = saves + 1
    /\ files' = [p \in DOMAIN files \cup {path} |->
                     IF p = path THEN content ELSE files[p]]
    /\ UNCHANGED <<pc, modules, keys, reads, walk, turns, error, graph, lint, bundle,
                   textVars, runtimeVars, hostVars>>

\* a file of the project is removed while buildDependencyGraph waits for one
\* of its calls
RemoveFile(path) ==
    /\ pc \in {"boot", "parsing", "start", "discovering"}
    /\ saves < MaxSaves
    /\ path \in DOMAIN files
    /\ saves' = saves + 1
    /\ files' = [p \in DOMAIN files \ {path} |-> files[p]]
    /\ UNCHANGED <<pc, modules, keys, reads, walk, turns, error, graph, lint, bundle,
                   textVars, runtimeVars, hostVars>>

DiscoveryNext ==
    \/ Discover
    \/ \E f \in 1..Len(FilePaths) : \E content \in SavedContents :
          SaveFile(FilePaths[f], content)
    \/ \E f \in 1..Len(FilePaths) : RemoveFile(FilePaths[f])

\* an awaited call of buildDependencyGraph completes
DiscoverTurn == pc \in {"start", "discovering"} /\ turns' = turns + 1

\* dependency discovery alone, on a project that is edited meanwhile.  The
\* build awaits buildDependencyGraph, which waits for nothing but its own
\* reads and existence tests, and each of these completes whatever the editor
\* does.  The only guard of Discover is the position of the build and Discover
\* alone counts a turn, so that weak fairness of Discover is stated on
\* DiscoverTurn
DiscoverySpec == DiscoveryInit /\ [][DiscoveryNext]_vars /\ WF_turns(DiscoverTurn)

\* ------------------------------------------------------------------------
\* The build command from the configuration to the output file
\* ------------------------------------------------------------------------
\* number of require statements a project of this section holds at most
MaxBuildSites == 2

\* what moonpack.json can be: a valid configuration, absent, a text that is no
\* JSON, the JSON value null, an object that validateConfig rejects
ConfigFiles == {"valid", "missing", "unparsable", "null", "invalid"}

\* loader.ts lines 19-23
ConfigNotFound == [NoError EXCEPT !.code = "CONFIG_NOT_FOUND"]

\* what loadConfig throws once file.json() has completed on a file found:
\* CONFIG_PARSE_ERROR for whatever file.json() throws, a file removed since
\* the existence test included (lines 27-35); the TypeError of `raw.name` on
\* null (schema.ts line 22), which is no MoonpackError and has no code of
\* its; INVALID_CONFIG (schema.ts lines 46-52)
configError(found) ==
    [NoError EXCEPT !.code = CASE found = "missing" -> "CONFIG_PARSE_ERROR"
                               [] found = "unparsable" -> "CONFIG_PARSE_ERROR"
                               [] found = "null" -> "TypeError"
                               [] found = "invalid" -> "INVALID_CONFIG"]

\* an output file left by an earlier build
StaleFile == [exists |-> TRUE, content |-> <<"o", "l", "d">>]

\* a project of four files holding at most MaxBuildSites require statements,
\* any configuration file, and the output file absent or stale
BuildInit ==
    /\ \E n \in 0..MaxBuildSites :
       \E siteFile \in [1..n -> 1..Len(FilePaths)] :
       \E siteName \in [1..n -> 1..Len(ImportNames)] :
          /\ \A k \in 1..(n - 1) : siteFile[k] <= siteFile[k + 1]
          /\ files = [p \in {FilePaths[f] : f \in 1..Len(FilePaths)} |->
                         fileContent(siteFile, siteName,
                                     CHOOSE f \in 1..Len(FilePaths) : FilePaths[f] = p)]
    /\ pc = "boot"
    /\ modules = EmptyMap
    /\ keys = <<>>
    /\ reads = <<>>
    /\ walk = NoWalk
    /\ turns = 0
    /\ saves = 0
    /\ error = NoError
    /\ graph = NoGraph
    /\ lint = NoLint
    /\ bundle = <<>>
    /\ configFile \in ConfigFiles
    /\ output \in {NoFile, StaleFile}
    /\ writes = 0
    /\ WatchIdle
    /\ TextIdle
    /\ RuntimeIdle

\* build.ts line 27, loadConfig one turn at a time: at "boot" the existence
\* test of loader.ts line 18 completes, at "parsing" file.json() of line 28
\* completes and validateConfig runs, each against moonpack.json as it is then
LoadConfig ==
    /\ pc \in {"boot", "parsing"}
    /\ pc' = IF pc = "boot"
             THEN (IF configFile = "missing" THEN "failed" ELSE "parsing")
             ELSE (IF configFile = "valid" THEN "start" ELSE "failed")
    /\ error' = IF pc = "boot"
                THEN (IF configFile = "missing" THEN ConfigNotFound ELSE error)
                ELSE (IF configFile = "valid" THEN error ELSE configError(configFile))
    /\ UNCHANGED <<files, saves, modules, keys, reads, walk, turns, graph, lint, bundle,
                   textVars, runtimeVars, hostVars>>

\* moonpack.json is written, by an editor or by `moonpack init`
\* (commands/init.ts), or removed, while the build is loading it or while
\* watchProject runs
ConfigChanges(found) ==
    /\ pc \in {"boot", "parsing"} \/ watchPc \in {"loading", "parsing", "deploying", "initial", "watching", "closing"}
    /\ saves < MaxSaves
    /\ found # configFile
    /\ saves' = saves + 1
    /\ configFile' = found
    /\ UNCHANGED <<files, pc, modules, keys, reads, walk, turns, error, graph, lint,
                   bundle, output, writes, watchVars, textVars, runtimeVars>>

\* a faulty build that writes the output file also after a failure
WriteAfterFailure ==
    /\ pc \in {"ensured", "failed"}
    /\ output' = [exists |-> TRUE, content |-> bundle]
    /\ writes' = writes + 1
    /\ pc' = "written"
    /\ UNCHANGED <<files, saves, modules, keys, reads, walk, turns, error, graph, lint, bundle, configFile,
                   watchVars, textVars, runtimeVars>>

\* build.ts lines 59-65: `await ensureDirectory(outDir)` returns, the
\* directory is there, and writeTextFile is called
EnsureDirectory ==
    /\ pc = "bundled"
    /\ pc' = "ensured"
    /\ UNCHANGED <<files, saves, modules, keys, reads, walk, turns, error, graph, lint,
                   bundle, textVars, runtimeVars, hostVars>>

\* build.ts line 65: writeTextFile(outputPath, bundle) returns
Write ==
    /\ pc = "ensured"
    /\ output' = [exists |-> TRUE, content |-> bundle]
    /\ writes' = writes + 1
    /\ pc' = "written"
    /\ UNCHANGED <<files, saves, modules, keys, reads, walk, turns, error, graph, lint, bundle, configFile,
                   watchVars, textVars, runtimeVars>>

\* what ensureDirectory or writeTextFile throws when the output cannot be
\* written: the system's error, no MoonpackError
WriteRefused == [NoError EXCEPT !.code = "EACCES"]

\* build.ts lines 60-65: mkdir of line 60 is refused, or Bun.write of line
\* 65, and build throws
WriteFails ==
    /\ pc \in {"bundled", "ensured"}
    /\ error' = WriteRefused
    /\ pc' = "failed"
    /\ UNCHANGED <<files, saves, modules, keys, reads, walk, turns, graph, lint, bundle,
                   textVars, runtimeVars, hostVars>>

BuildNext ==
    \/ LoadConfig
    \/ \E found \in ConfigFiles : ConfigChanges(found)
    \/ PipelineNext
    \/ \E f \in 1..Len(FilePaths) : \E content \in SavedContents :
          SaveFile(FilePaths[f], content)
    \/ \E f \in 1..Len(FilePaths) : RemoveFile(FilePaths[f])
    \/ EnsureDirectory
    \/ Write
    \/ WriteFails

BuildSpec == BuildInit /\ [][BuildNext]_vars

\* ------------------------------------------------------------------------
\* The parser and the rewriter applied to one source buffer
\* ------------------------------------------------------------------------
\* the fragments a source buffer is assembled from: require statements of the
\* three forms with both quote characters, the delimiters of comments,
\* strings and long brackets, and a comment line that holds an apostrophe
Parts ==
    << <<"r", "e", "q", "u", "i", "r", "e", "(", "'", ".", "/", "b", "'", ")">>,
       <<"r", "e", "q", "u", "i", "r", "e", " ", "\"", ".", "/", "c", "\"">>,
       <<"p", "c", "a", "l", "l", "(", "r", "e", "q", "u", "i", "r", "e",
         ",", " ", "'", ".", "/", "b", "'", ")">>,
       <<"r", "e", "q", "u", "i", "r", "e", "(", "\"", "s", "a", "m", "p",
         "\"", ")">>,
       <<"-", "-">>,
       <<"\n">>,
       <<"\"">>,
       <<"'">>,
       <<"[", "[">>,
       <<"]", "]">>,
       <<" ">>,
       <<")">>,
       <<"-", "-", " ", "i", "t", "'", "s", "\n">> >>

\* the requireMappings a buffer is rewritten with
Mappings ==
    { EmptyMap,
      (<<".", "/", "b">> :> <<"b">>),
      (<<".", "/", "c">> :> <<"c">>),
      (<<".", "/", "b">> :> <<"b">>) @@ (<<".", "/", "c">> :> <<"c">>) }

\* a buffer of at most MaxParts fragments and one of the mappings
TextInit ==
    /\ \E n \in 0..MaxParts :
       \E part \in [1..n -> 1..Len(Parts)] :
          buffer = Concat([k \in 1..n |-> Parts[part[k]]])
    /\ mapping \in Mappings
    /\ textPc = "input"
    /\ parsed = <<>>
    /\ rewritten = <<>>
    /\ localized = <<>>
    /\ relocalized = <<>>
    /\ PipelineIdle
    /\ RuntimeIdle
    /\ HostIdle

\* graph.ts lines 222 and 283: the buffer is parsed when its node is built
Parse ==
    /\ textPc = "input"
    /\ parsed' = parseRequireStatements(buffer)
    /\ textPc' = "parsed"
    /\ UNCHANGED <<buffer, mapping, rewritten, localized, relocalized, pipelineVars,
                 runtimeVars, hostVars>>

\* generateBundle: the buffer is rewritten with the mappings of its node
Rewrite ==
    /\ textPc = "parsed"
    /\ rewritten' = transformRequiresToLoad(buffer, mapping)
    /\ textPc' = "rewritten"
    /\ UNCHANGED <<buffer, mapping, parsed, localized, relocalized, pipelineVars,
                 runtimeVars, hostVars>>

TextNext == Parse \/ Rewrite

TextSpec == TextInit /\ [][TextNext]_vars

\* ------------------------------------------------------------------------
\* The auto-localizer applied to one source buffer
\* ------------------------------------------------------------------------
\* the fragments a buffer is assembled from: a plain, a dotted, a method and
\* an anonymous function, the word local, white space, the delimiters of
\* comments, strings and long brackets, and a comment line that holds an
\* apostrophe
DeclParts ==
    << <<"f", "u", "n", "c", "t", "i", "o", "n", " ", "f", "(", ")">>,
       <<"f", "u", "n", "c", "t", "i", "o", "n", " ", "a", ".", "b", "(",
       ")">>,
       <<"f", "u", "n", "c", "t", "i", "o", "n", " ", "a", ":", "b", "(",
       ")">>,
       <<"f", "u", "n", "c", "t", "i", "o", "n", "(", ")">>,
       <<"l", "o", "c", "a", "l">>,
       <<" ">>,
       <<"\t">>,
       <<"\n">>,
       <<"-", "-">>,
       <<"'">>,
       <<"\"">>,
       <<"[", "[">>,
       <<"]", "]">>,
       <<"-", "-", " ", "i", "t", "'", "s", "\n">> >>

\* a buffer of at most MaxParts fragments
LocalizeInit ==
    /\ \E n \in 0..MaxParts :
       \E part \in [1..n -> 1..Len(DeclParts)] :
          buffer = Concat([k \in 1..n |-> DeclParts[part[k]]])
    /\ mapping = EmptyMap
    /\ textPc = "source"
    /\ parsed = <<>>
    /\ rewritten = <<>>
    /\ localized = <<>>
    /\ relocalized = <<>>
    /\ PipelineIdle
    /\ RuntimeIdle
    /\ HostIdle

\* generateModuleWrapper: the source of a module is localized
Localize ==
    /\ textPc = "source"
    /\ localized' = autoLocalizeFunctions(buffer)
    /\ textPc' = "localized"
    /\ UNCHANGED <<buffer, mapping, parsed, rewritten, relocalized, pipelineVars,
                   runtimeVars, hostVars>>

\* the localized text is handed to autoLocalizeFunctions once more
LocalizeAgain ==
    /\ textPc = "localized"
    /\ relocalized' = autoLocalizeFunctions(localized)
    /\ textPc' = "relocalized"
    /\ UNCHANGED <<buffer, mapping, parsed, rewritten, localized, pipelineVars,
                   runtimeVars, hostVars>>

LocalizeNext == Localize \/ LocalizeAgain

LocalizeSpec == LocalizeInit /\ [][LocalizeNext]_vars

\* ------------------------------------------------------------------------
\* The runtime shim of the bundle: __modules, __loaded and __load(name)
\* ------------------------------------------------------------------------
\* number of __load calls a run of the bundle makes
MaxCalls == 4

\* the ids the wrappers of a bundle may register
ModuleIds == {<<"b">>, <<"c">>}

\* the names __load is called with: the ids and one external name
LoadNames == ModuleIds \cup {<<"s", "a", "m", "p">>}

\* the values a module's thunk may return: a chunk without a return statement
\* yields nil
ThunkResults == {"nil", "false", "table"}

\* the value of require(name) of the host
HostModule == "host"

\* the truthiness test of `if v then`
truthy(v) == v \notin {"nil", "false"}

\* the state after the registrations `__modules["<id>"] = function() ... end`
\* have run, for every set of registered ids and every result of their thunks
RuntimeInit ==
    /\ \E registered \in SUBSET ModuleIds :
          __modules \in [registered -> ThunkResults]
    /\ __loaded = [name \in LoadNames |-> "nil"]
    /\ invocations = [name \in LoadNames |-> 0]
    /\ returned = "nil"
    /\ calls = 0
    /\ PipelineIdle
    /\ TextIdle
    /\ HostIdle

\* local function __load(name) ... end
__load(name) ==
    /\ calls < MaxCalls
    /\ calls' = calls + 1
    /\ IF truthy(__loaded[name])
       THEN /\ returned' = __loaded[name]
            /\ UNCHANGED <<__loaded, invocations>>
       ELSE IF name \in DOMAIN __modules
       THEN /\ __loaded' = [__loaded EXCEPT ![name] = __modules[name]]
            /\ invocations' = [invocations EXCEPT ![name] = @ + 1]
            /\ returned' = __modules[name]
       ELSE /\ returned' = HostModule
            /\ UNCHANGED <<__loaded, invocations>>
    /\ UNCHANGED <<__modules, pipelineVars, textVars, hostVars>>

RuntimeNext == \E name \in LoadNames : __load(name)

RuntimeSpec == RuntimeInit /\ [][RuntimeNext]_vars

\* ------------------------------------------------------------------------
\* Properties of the returned graph and of the bundle
\* ------------------------------------------------------------------------
Range(seq) == {seq[k] : k \in 1..Len(seq)}

\* the modules that module m imports
importsOf(mods, m) == Range(mods[m].dependencies)

RECURSIVE reachableFrom(_, _)
\* the modules reachable from the modules of `reached` along import edges
reachableFrom(mods, reached) ==
    IF \A m \in reached \cap DOMAIN mods : importsOf(mods, m) \subseteq reached
    THEN reached
    ELSE reachableFrom(mods,
                       reached \cup UNION {importsOf(mods, m) :
                                              m \in reached \cap DOMAIN mods})

\* module m lies on a cycle of import edges
onCycle(mods, m) == m \in reachableFrom(mods, importsOf(mods, m))

hasCycle(mods) == \E m \in DOMAIN mods : onCycle(mods, m)

\* C1: in every graph buildDependencyGraph returns, each module listed in the
\* dependencies of a module u stands at a strictly smaller index of
\* moduleOrder than u does
DependenciesBeforeDependents ==
    graph # NoGraph =>
        \A u \in DOMAIN graph.modules :
            /\ u \in Range(graph.moduleOrder)
            /\ \A v \in importsOf(graph.modules, u) :
                  /\ v \in Range(graph.moduleOrder)
                  /\ \A i, j \in 1..Len(graph.moduleOrder) :
                        (graph.moduleOrder[i] = u /\ graph.moduleOrder[j] = v) => j < i

\* C1 witness: a graph was returned for the diamond entry -> x, entry -> y,
\* x -> z, y -> z
DiamondGraphReturned ==
    /\ graph # NoGraph
    /\ \E x, y, z \in DOMAIN graph.modules \ {graph.entryPoint} :
          /\ x # y /\ x # z /\ y # z
          /\ {x, y} \subseteq importsOf(graph.modules, graph.entryPoint)
          /\ z \in importsOf(graph.modules, x)
          /\ z \in importsOf(graph.modules, y)

\* C2: once every bundled import has resolved, the build fails with
\* CIRCULAR_DEPENDENCY exactly when the import graph reachable from the entry
\* (the discovered modules) has a cycle, and a returned graph has none
CircularDependencyIffCycle ==
    /\ (pc \in {"acyclic", "graph", "linted", "bundled"}
           \/ (pc = "failed" /\ error.code # "MODULE_NOT_FOUND"))
          => /\ DOMAIN modules = {keys[1]} \cup reachableFrom(modules, {keys[1]})
             /\ (error.code = "CIRCULAR_DEPENDENCY") <=> hasCycle(modules)
             /\ (pc = "failed") <=> hasCycle(modules)
    /\ graph # NoGraph => ~hasCycle(graph.modules)

\* C2 witness: the build failed for a module other than the entry that
\* imports itself, the entry lying on no cycle
SelfImportOffEntryRejected ==
    /\ pc = "failed"
    /\ error.code = "CIRCULAR_DEPENDENCY"
    /\ ~onCycle(modules, keys[1])
    /\ \E m \in DOMAIN modules \ {keys[1]} : m \in importsOf(modules, m)

\* the bundled (local) require statements of the file at path, in source order
localSites(fs, path) ==
    SelectSeq(parseRequireStatements(fs[path]), LAMBDA s : isLocal(s.moduleName))

\* a site of the walk below, with the files the walk has seen
siteResult(found, moduleName, requiredBy, line, seen) ==
    [found |-> found, moduleName |-> moduleName, requiredBy |-> requiredBy,
     line |-> line, seen |-> seen]

RECURSIVE firstUnresolved(_, _, _, _, _)
\* the walk at the k-th site of the file at path, which resolves to target
firstUnresolvedAt(fs, path, k, seen, sites, target) ==
    IF ~target.found
    THEN siteResult(TRUE, sites[k].moduleName, path, sites[k].line, seen)
    ELSE IF target.filePath \in seen
    THEN firstUnresolved(fs, path, k + 1, seen, sites)
    ELSE Only({ IF below.found THEN below
                ELSE firstUnresolved(fs, path, k + 1, below.seen, sites)
                : below \in {firstUnresolved(fs, target.filePath, 1,
                                             seen \cup {target.filePath},
                                             localSites(fs, target.filePath))} })

\* discovery order: the sites of a file are taken in source order and a file
\* met for the first time is walked before the next site of the file that
\* imports it.  The result is the first site in that order that resolves to
\* no file (found = FALSE when there is none), with the files seen so far.
firstUnresolved(fs, path, k, seen, sites) ==
    IF k > Len(sites) THEN siteResult(FALSE, <<>>, <<>>, 0, seen)
    ELSE firstUnresolvedAt(fs, path, k, seen, sites,
                           resolveModulePath(fs, sites[k].moduleName, SourceRoot, path))

\* the first unresolved bundled site of the project, in discovery order
firstMissing(fs) ==
    firstUnresolved(fs, EntryPath, 1, {EntryPath}, localSites(fs, EntryPath))

\* C5: when a bundled require site reached by discovery resolves to no file,
\* the build fails with MODULE_NOT_FOUND carrying the import name, the
\* requiring file and the line of the first such site in discovery order, and
\* no graph is returned; without such a site there is no MODULE_NOT_FOUND
ModuleNotFoundReportsFirstSite ==
    pc \notin {"start", "discovering", "idle"} =>
        \E first \in {firstMissing(files)} :
           /\ first.found <=> (error.code = "MODULE_NOT_FOUND")
           /\ first.found =>
                 /\ error.moduleName = first.moduleName
                 /\ error.requiredBy = first.requiredBy
                 /\ error.line = first.line
                 /\ pc = "failed"
                 /\ graph = NoGraph
                 /\ bundle = <<>>

\* C5 witness: the failure reports the second line of an imported file while
\* the entry itself holds an unresolved site further down
MissingModuleBelowEntryReported ==
    /\ pc = "failed"
    /\ error.code = "MODULE_NOT_FOUND"
    /\ error.requiredBy # EntryPath
    /\ error.line = 2
    /\ \E s \in Range(localSites(files, EntryPath)) :
          ~resolveModulePath(files, s.moduleName, SourceRoot, EntryPath).found

\* the external import names written in the modules mods
externalImports(mods) ==
    UNION {{s.moduleName : s \in {r \in Range(mods[m].requires) : ~isLocal(r.moduleName)}}
              : m \in DOMAIN mods}

\* C6: an external import is never resolved into the graph: it is no key of
\* modules, stands in no dependencies and in no requireMappings, what stands
\* there comes from bundled imports only, and MODULE_NOT_FOUND never names it
ExternalImportsStayOutOfGraph ==
    /\ graph # NoGraph =>
          /\ DOMAIN graph.modules =
                 {graph.entryPoint}
                     \cup UNION {importsOf(graph.modules, m) : m \in DOMAIN graph.modules}
          /\ \A m \in DOMAIN graph.modules :
                /\ \A name \in DOMAIN graph.modules[m].requireMappings : isLocal(name)
                /\ importsOf(graph.modules, m) =
                       {graph.modules[m].requireMappings[name] :
                           name \in DOMAIN graph.modules[m].requireMappings}
                /\ \A ext \in externalImports(graph.modules) :
                      /\ ext \notin DOMAIN graph.modules
                      /\ ext \notin importsOf(graph.modules, m)
                      /\ ext \notin DOMAIN graph.modules[m].requireMappings
    /\ error.code = "MODULE_NOT_FOUND" => isLocal(error.moduleName)

\* C6 witness: a graph was returned for a project in which the entry and an
\* imported module both require an external name that no file stands for
ExternalImportsInReturnedGraph ==
    /\ graph # NoGraph
    /\ \E m \in DOMAIN graph.modules \ {graph.entryPoint} :
       \E s \in Range(graph.modules[m].requires) :
       \E t \in Range(graph.modules[graph.entryPoint].requires) :
          /\ ~isLocal(s.moduleName)
          /\ ~isLocal(t.moduleName)
          /\ ~resolveModulePath(files, s.moduleName, SourceRoot,
                                graph.modules[m].filePath).found

\* a registration `__modules["<id>"] = function()` starts a line at offset i
registrationAt(text, i) ==
    /\ StartsWithAt(text, i, WrapperOpen)
    /\ At(text, i - 1) = "\n"
    /\ StartsWithAt(text, IndexOf(text, <<"\"">>, i + Len(WrapperOpen)), WrapperAssign)

registeredIdAt(text, i) ==
    Substring(text, i + Len(WrapperOpen), IndexOf(text, <<"\"">>, i + Len(WrapperOpen)))

registrationOffsets(text) == {i \in 0..(Len(text) - 1) : registrationAt(text, i)}

RECURSIVE registeredIds(_, _)
\* the ids of the registrations at offsets, in text order
registeredIds(text, offsets) ==
    IF offsets = {} THEN <<>>
    ELSE <<registeredIdAt(text, SetMin(offsets))>>
             \o registeredIds(text, offsets \ {SetMin(offsets)})

\* the text every bundle starts with: header, empty line, loader, empty line
bundlePrologue == generateHeader(Config) \o Newline \o Newline \o generateModuleLoader
                      \o Newline \o Newline

\* the rewritten entry source, the last line block of the bundle
entryEpilogue(g) ==
    Newline \o WrapperEnd \o Newline \o Newline
        \o transformRequiresToLoad(g.modules[g.entryPoint].source,
                                   g.modules[g.entryPoint].requireMappings)

\* C9: the bundle is the header and the loader, then one wrapper per non-entry
\* module in moduleOrder order, each after the wrappers of its dependencies,
\* then the entry source; the entry is neither wrapped nor registered
BundleLayout ==
    pc = "bundled" =>
        \E offsets \in {registrationOffsets(bundle)} :
           /\ StartsWithAt(bundle, 0, bundlePrologue)
           /\ \A i \in offsets : i >= Len(bundlePrologue)
           /\ registeredIds(bundle, offsets) =
                  SelectSeq(graph.moduleOrder, LAMBDA m : m # graph.entryPoint)
           /\ graph.entryPoint \notin Range(registeredIds(bundle, offsets))
           /\ \A i, j \in offsets :
                 registeredIdAt(bundle, i)
                     \in importsOf(graph.modules, registeredIdAt(bundle, j)) => i < j
           /\ IF offsets = {}
              THEN bundle = bundlePrologue
                       \o transformRequiresToLoad(
                              graph.modules[graph.entryPoint].source,
                              graph.modules[graph.entryPoint].requireMappings)
              ELSE /\ EndsWith(bundle, entryEpilogue(graph))
                   /\ SetMax(offsets) < Len(bundle) - Len(entryEpilogue(graph))

\* C9 witness: a bundle whose wrappers stand in an order other than the order
\* in which discovery met the modules
WrappersReorderedInBundle ==
    /\ pc = "bundled"
    /\ Len(keys) >= 3
    /\ registeredIds(bundle, registrationOffsets(bundle)) # Tail(keys)

\* C10: in every graph buildDependencyGraph returns, the id of the entry
\* module is the last element of moduleOrder
EntryIsLastInOrder ==
    graph # NoGraph =>
        /\ Len(graph.moduleOrder) > 0
        /\ graph.moduleOrder[Len(graph.moduleOrder)] = graph.entryPoint
        /\ graph.entryPoint = getModuleNameFromPath(EntryPath, SourceRoot)

\* C10 witness: a graph was returned for the chain entry -> x -> y -> z
ChainGraphReturned ==
    /\ graph # NoGraph
    /\ Len(graph.moduleOrder) = 4
    /\ \A k \in 1..3 :
          importsOf(graph.modules, graph.moduleOrder[k + 1]) = {graph.moduleOrder[k]}

\* the ids the __load calls of text are made with: __load(<q>id<q>) and
\* pcall(__load, <q>id<q>)
loadCallOpenings == {KwLoadOpen, <<"_", "_", "l", "o", "a", "d", ",", " ">>}

loadTargets(text) ==
    { Substring(text, i, IndexOf(text, <<At(text, i - 1)>>, i)) :
        i \in {j \in 1..(Len(text) - 1) :
                 /\ At(text, j - 1) \in Quotes
                 /\ \E w \in loadCallOpenings : StartsWithAt(text, j - 1 - Len(w), w)
                 /\ IndexOf(text, <<At(text, j - 1)>>, j) # -1} }

\* C4 as stated: every id a rewritten site loads has exactly one registration
\* of that same id in the bundle, and the registrations stand before the
\* entry source
EveryLoadHasOneRegistration ==
    pc = "bundled" =>
        \E offsets \in {registrationOffsets(bundle)} :
           /\ \A id \in loadTargets(bundle) :
                 Cardinality({i \in offsets : registeredIdAt(bundle, i) = id}) = 1
           /\ \A i \in offsets :
                 i < Len(bundle)
                         - Len(transformRequiresToLoad(
                                   graph.modules[graph.entryPoint].source,
                                   graph.modules[graph.entryPoint].requireMappings))

\* ------------------------------------------------------------------------
\* Properties of the rewriter
\* ------------------------------------------------------------------------
\* the replacements transformRequiresToLoad collects for text
replacementsOf(text, bundled) ==
    collectReplacements(text, bundled, excludedRanges(text), <<>>,
                        allPatternMatches(text))

RECURSIVE shiftBefore(_, _)
\* by how much the replacements rs that start before offset move that offset
shiftBefore(rs, offset) ==
    IF rs = <<>> THEN 0
    ELSE (IF Head(rs).start < offset
          THEN Len(Head(rs).replacement) - (Head(rs).end - Head(rs).start)
          ELSE 0)
         + shiftBefore(Tail(rs), offset)

\* the require sites of text whose import name is not bundled
unbundledSites(text, bundled) ==
    {m \in Range(requireMatches(text)) : m.moduleName \notin DOMAIN bundled}

\* site m of text stands byte for byte in the rewritten text, at its offset
\* moved by the replacements made before it, and no replacement touches it
siteUntouched(text, out, rs, m) ==
    /\ \A k \in 1..Len(rs) : rs[k].end <= m.index \/ rs[k].start >= m.end
    /\ Substring(out, m.index + shiftBefore(rs, m.index),
                 m.end + shiftBefore(rs, m.index))
           = Substring(text, m.index, m.end)

\* C8: every require site whose import name is not in the mapping stands
\* byte for byte unchanged in the output, whatever its form, and with an
\* empty mapping the output is the input
UnbundledSitesUntouched ==
    textPc = "rewritten" =>
        /\ DOMAIN mapping = {} => rewritten = buffer
        /\ \A m \in unbundledSites(buffer, mapping) :
              siteUntouched(buffer, rewritten, replacementsOf(buffer, mapping), m)

\* C8 witness: a buffer was rewritten in which a bundled site is replaced and
\* an unbundled compact or pcall site stands behind it
UnbundledSiteBehindRewrittenSite ==
    /\ textPc = "rewritten"
    /\ rewritten # buffer
    /\ \E m \in unbundledSites(buffer, mapping) :
          /\ m.type \in {"compact", "pcall"}
          /\ shiftBefore(replacementsOf(buffer, mapping), m.index) # 0

RECURSIVE expectedRewrite(_, _, _, _, _)
\* text with every bundled site of sites from the k-th on replaced by the
\* call that loads the module id its import name is mapped to, the text
\* between the sites copied from offset from on
expectedRewrite(text, sites, k, from, bundled) ==
    IF k > Len(sites) THEN SubstringFrom(text, from)
    ELSE IF sites[k].moduleName \notin DOMAIN bundled
    THEN expectedRewrite(text, sites, k + 1, from, bundled)
    ELSE Substring(text, from, sites[k].index)
             \o replacementText(sites[k].type, sites[k].quote,
                                bundled[sites[k].moduleName])
             \o expectedRewrite(text, sites, k + 1, sites[k].end, bundled)

\* C7 as stated: the output is the input with exactly the bundled sites
\* replaced by __load(<q><mappedId><q>) or pcall(__load, <q><mappedId><q>),
\* mappedId being the module id the import name is mapped to
RewriteLoadsMappedId ==
    textPc = "rewritten" =>
        rewritten = expectedRewrite(buffer, requireMatches(buffer), 1, 0, mapping)

\* ------------------------------------------------------------------------
\* Properties of the runtime shim
\* ------------------------------------------------------------------------
\* C3 as stated: whatever its thunk returns, a registered module's thunk runs
\* at most once over any sequence of __load calls
ThunkRunsAtMostOnce ==
    \A name \in DOMAIN __modules : invocations[name] <= 1

\* ------------------------------------------------------------------------
\* Further properties of the returned graph
\* ------------------------------------------------------------------------
\* C11: in every graph buildDependencyGraph returns, moduleOrder lists every
\* key of the modules map and lists no module id twice
ModuleOrderIsPermutation ==
    graph # NoGraph =>
        /\ Range(graph.moduleOrder) = DOMAIN graph.modules
        /\ Len(graph.moduleOrder) = Cardinality(DOMAIN graph.modules)
        /\ \A i, j \in 1..Len(graph.moduleOrder) :
              graph.moduleOrder[i] = graph.moduleOrder[j] => i = j

\* C11 witness: a graph was returned in which one module is required twice
\* within a module and once more by another module
RepeatedAndSharedImportReturned ==
    /\ graph # NoGraph
    /\ \E u, w, v \in DOMAIN graph.modules :
          /\ u # w
          /\ \E i, j \in 1..Len(graph.modules[u].dependencies) :
                /\ i # j
                /\ graph.modules[u].dependencies[i] = v
                /\ graph.modules[u].dependencies[j] = v
          /\ v \in importsOf(graph.modules, w)

\* C12: the module id depends on the resolved file alone.  No two nodes of the
\* modules map stand for the same file, and every recorded import, whatever
\* its raw name and the module it is written in, is mapped to the id of the
\* node of the file it resolves to; an import of the entry file is mapped to
\* the id of the entry node
ModuleIdDeterminedByFile ==
    pc \notin {"start", "discovering", "idle"} =>
        /\ \A u, v \in DOMAIN modules :
              modules[u].filePath = modules[v].filePath => u = v
        /\ \A u \in DOMAIN modules :
           \A raw \in DOMAIN modules[u].requireMappings :
              \E target \in {resolveModulePath(files, raw, SourceRoot,
                                               modules[u].filePath)} :
                 /\ target.found
                 /\ modules[u].requireMappings[raw] \in DOMAIN modules
                 /\ modules[modules[u].requireMappings[raw]].filePath = target.filePath
                 /\ target.filePath = EntryPath =>
                        modules[u].requireMappings[raw] = keys[1]

\* C12 witness: two modules import one file under two different raw names,
\* and a module other than the entry imports the entry file
SameFileUnderTwoNames ==
    /\ pc \notin {"start", "discovering", "idle"}
    /\ \E u, w \in DOMAIN modules :
       \E rawU \in DOMAIN modules[u].requireMappings :
       \E rawW \in DOMAIN modules[w].requireMappings :
          /\ u # w
          /\ rawU # rawW
          /\ modules[u].requireMappings[rawU] = modules[w].requireMappings[rawW]
    /\ \E m \in DOMAIN modules \ {keys[1]} : keys[1] \in importsOf(modules, m)

\* the walk below has left the file at path
leaveFile(st, path) == [st EXCEPT !.order = Append(@, path)]

RECURSIVE postOrderWalk(_, _, _)
RECURSIVE postOrderSites(_, _, _, _, _)
\* the bundled sites of the file at path from the k-th on, each walked to the
\* file it resolves to, in source order
postOrderSites(fs, path, sites, k, st) ==
    IF k > Len(sites) THEN st
    ELSE postOrderSites(fs, path, sites, k + 1,
                        postOrderWalk(fs,
                                      resolveModulePath(fs, sites[k].moduleName,
                                                        SourceRoot, path).filePath,
                                      st))

\* post-order depth-first walk over the files: a file not seen before is
\* listed after the files its require sites lead to
postOrderWalk(fs, path, st) ==
    IF path \in st.seen THEN st
    ELSE leaveFile(postOrderSites(fs, path, localSites(fs, path), 1,
                                  [st EXCEPT !.seen = @ \cup {path}]),
                   path)

\* the files of the project in post-order from the entry file
postOrderOfFiles(fs) == postOrderWalk(fs, EntryPath, [order |-> <<>>, seen |-> {}]).order

\* C13: the moduleOrder of a returned graph is determined by the file
\* contents alone: it lists the files in the post-order of the depth-first
\* walk from the entry that follows the require sites of each file in source
\* order, whatever the order in which the modules map was filled
ModuleOrderIsPostOrderOfFiles ==
    graph # NoGraph =>
        [k \in 1..Len(graph.moduleOrder) |->
            graph.modules[graph.moduleOrder[k]].filePath] = postOrderOfFiles(files)

\* C13 witness: a graph of at least three modules was returned whose
\* moduleOrder is not the reverse of the order in which the modules map was
\* filled
OrderDiffersFromInsertionOrder ==
    /\ graph # NoGraph
    /\ Len(keys) >= 3
    /\ \E i \in 1..Len(keys) : graph.moduleOrder[i] # keys[Len(keys) + 1 - i]

\* ------------------------------------------------------------------------
\* The build pipeline on a project with a comma in a file name
\* ------------------------------------------------------------------------
\* the files of the project: the entry a.lua, b.lua and a file named "a,b.lua"
CommaPaths ==
    << EntryPath,
       <<"/", "s", "r", "c", "/", "b", ".", "l", "u", "a">>,
       <<"/", "s", "r", "c", "/", "a", ",", "b", ".", "l", "u", "a">> >>

\* the statements written into the files, one per line
CommaLines ==
    << <<"r", "e", "q", "u", "i", "r", "e", "(", "'", ".", "/", "a", "'", ")">>,
       <<"r", "e", "q", "u", "i", "r", "e", "(", "'", ".", "/", "b", "'", ")">>,
       <<"r", "e", "q", "u", "i", "r", "e", "(", "'", ".", "/", "a", ",", "b",
         "'", ")">> >>

\* the content of file f when the project's sites are (siteFile[k], siteName[k])
commaFileContent(siteFile, siteName, f) ==
    Concat([k \in 1..Len(siteFile) |->
               IF siteFile[k] = f THEN CommaLines[siteName[k]] \o Newline ELSE <<>>])

\* a project of the three files holding at most MaxSites require statements
CycleInit ==
    /\ \E n \in 0..MaxSites :
       \E siteFile \in [1..n -> 1..Len(CommaPaths)] :
       \E siteName \in [1..n -> 1..Len(CommaLines)] :
          /\ \A k \in 1..(n - 1) : siteFile[k] <= siteFile[k + 1]
          /\ files = [p \in {CommaPaths[f] : f \in 1..Len(CommaPaths)} |->
                         commaFileContent(siteFile, siteName,
                                          CHOOSE f \in 1..Len(CommaPaths) :
                                              CommaPaths[f] = p)]
    /\ pc = "start"
    /\ modules = EmptyMap
    /\ keys = <<>>
    /\ reads = <<>>
    /\ walk = NoWalk
    /\ turns = 0
    /\ saves = 0
    /\ error = NoError
    /\ graph = NoGraph
    /\ lint = NoLint
    /\ bundle = <<>>
    /\ TextIdle
    /\ RuntimeIdle
    /\ HostIdle

CycleSpec == CycleInit /\ [][Next]_vars

\* the modules that lie on a cycle with module m
component(mods, m) ==
    {n \in reachableFrom(mods, importsOf(mods, m)) \cap DOMAIN mods :
        m \in reachableFrom(mods, importsOf(mods, n))}

\* the cycles of the import graph are node-disjoint: a module on a cycle has
\* one import that leads back to it
cyclesAreDisjoint(mods) ==
    \A m \in DOMAIN mods :
        onCycle(mods, m) => Cardinality(importsOf(mods, m) \cap component(mods, m)) = 1

\* the node sets of the cycles of an import graph with node-disjoint cycles
cyclicComponents(mods) ==
    {component(mods, m) : m \in {n \in DOMAIN mods : onCycle(mods, n)}}

\* C14 as stated: cycles are the same only as rotations of one another, so an
\* import graph with k node-disjoint cycles fails with exactly k entries in
\* details.cycles
DisjointCyclesListedOnceEach ==
    (error.code = "CIRCULAR_DEPENDENCY" /\ cyclesAreDisjoint(modules)) =>
        Len(error.cycles) = Cardinality(cyclicComponents(modules))

\* ------------------------------------------------------------------------
\* Properties of the require sites of a buffer
\* ------------------------------------------------------------------------
\* the offset a require statement was found at, from its line and column
siteOffset(source, site) ==
    site.column
        + (IF site.line = 1 THEN -1
           ELSE CHOOSE j \in 0..(Len(source) - 1) :
                    /\ At(source, j) = "\n"
                    /\ Cardinality({i \in 0..(j - 1) : At(source, i) = "\n"})
                           = site.line - 2)

\* the offsets of the sites parseRequireStatements returned for source
siteOffsets(source, sites) == {siteOffset(source, sites[k]) : k \in 1..Len(sites)}

\* a long bracket opens at offset start: "[", a run of "=", "["
opensLongBracket(source, start) ==
    At(source, start) = "[" /\ At(source, countEquals(source, start + 1)) = "["

\* the result of the scan below: the spans found and whether every string and
\* block comment of the buffer was closed
lexical(spans, closed) == [spans |-> spans, closed |-> closed]

RECURSIVE lexicalFrom(_, _)
\* the span from start to end, then the spans from offset end + 1 on
lexicalSpan(source, start, end) ==
    Only({ lexical(<<[start |-> start, end |-> end]>> \o rest.spans, rest.closed)
           : rest \in {lexicalFrom(source, end + 1)} })

\* the token that opens at offset j and is closed at offset close (-1: never)
lexicalToken(source, j, close) ==
    IF close = -1 THEN lexical(<<>>, FALSE) ELSE lexicalSpan(source, j, close)

\* the comment that opens at offset j: a block comment when a long bracket
\* opens behind the two dashes, a line comment up to the line end otherwise
lexicalComment(source, j, lineEnd) ==
    IF opensLongBracket(source, j + 2)
    THEN lexicalToken(source, j, matchLongBracket(source, j + 2))
    ELSE lexicalSpan(source, j, IF lineEnd = -1 THEN Len(source) - 1 ELSE lineEnd - 1)

\* the strings and comments of a buffer as the script language reads them: one
\* scan from left to right in which the token that opens first (a comment at
\* two dashes, a string at a quote or at a long bracket) runs to its closer,
\* and nothing inside a token opens another one
lexicalFrom(source, i) ==
    Only({ IF j >= Len(source) THEN lexical(<<>>, TRUE)
           ELSE IF StartsWithAt(source, j, <<"-", "-">>)
           THEN lexicalComment(source, j, IndexOf(source, <<"\n">>, j))
           ELSE IF At(source, j) \in Quotes
           THEN lexicalToken(source, j, scanQuoted(source, j + 1, At(source, j)))
           ELSE IF opensLongBracket(source, j)
           THEN lexicalToken(source, j, matchLongBracket(source, j))
           ELSE lexicalFrom(source, j + 1)
           : j \in {NextOf(source, i, Quotes \cup {"[", "-"})} })

\* C15 as stated, for buffers whose strings and block comments are all
\* closed: no require site starts inside a string or a comment of the buffer,
\* and every parenthesized require that starts outside all of them is a site
SitesAreTheRequiresOutsideSpans ==
    textPc \in {"parsed", "rewritten"} =>
        \E lex \in {lexicalFrom(buffer, 0)} :
           lex.closed =>
              /\ \A o \in siteOffsets(buffer, parsed) : ~isInsideRange(o, lex.spans)
              /\ \A i \in 0..(Len(buffer) - 1) :
                    (matchStandard(buffer, i).ok /\ ~isInsideRange(i, lex.spans))
                        => i \in siteOffsets(buffer, parsed)

\* the same statement over the spans the scanner of parser.ts reports
SitesOutsideScannerSpans ==
    textPc \in {"parsed", "rewritten"} =>
        /\ \A o \in siteOffsets(buffer, parsed) :
              ~isInsideRange(o, excludedRanges(buffer))
        /\ \A i \in 0..(Len(buffer) - 1) :
              (matchStandard(buffer, i).ok /\ ~isInsideRange(i, excludedRanges(buffer)))
                  => i \in siteOffsets(buffer, parsed)

\* ------------------------------------------------------------------------
\* The build pipeline on a project whose files hold function declarations
\* ------------------------------------------------------------------------
\* number of declaration lines a file holds at most
MaxDecls == 2

\* the entry a.lua and the module b.lua
DeclPaths ==
    << EntryPath,
       <<"/", "s", "r", "c", "/", "b", ".", "l", "u", "a">> >>

\* the first line of the entry
RequireB == <<"r", "e", "q", "u", "i", "r", "e", "(", "'", ".", "/", "b", "'",
            ")">>

\* the lines written into the files: a host callback, a helper, a declaration
\* that is local already, a dotted declaration, a declaration in a comment
DeclLines ==
    << <<"f", "u", "n", "c", "t", "i", "o", "n", " ", "m", "a", "i", "n", "(",
       ")", " ", "e", "n", "d">>,
       <<"f", "u", "n", "c", "t", "i", "o", "n", " ", "h", "e", "l", "p", "e",
       "r", "(", ")", " ", "e", "n", "d">>,
       <<"l", "o", "c", "a", "l", " ", "f", "u", "n", "c", "t", "i", "o", "n",
       " ", "m", "a", "i", "n", "(", ")", " ", "e", "n", "d">>,
       <<"f", "u", "n", "c", "t", "i", "o", "n", " ", "M", ".", "f", "(", ")",
       " ", "e", "n", "d">>,
       <<"-", "-", " ", "f", "u", "n", "c", "t", "i", "o", "n", " ", "m", "a",
       "i", "n", "(", ")", " ", "e", "n", "d">> >>

\* the sequences of at most n lines of pool, as indexes into pool
lineChoices(pool, n) == UNION {[1..k -> 1..Len(pool)] : k \in 0..n}

\* the text of the lines chosen from pool, each ended by a line feed
linesText(pool, chosen) ==
    Concat([k \in 1..Len(chosen) |-> pool[chosen[k]] \o Newline])

\* the entry requires b, and each of the two files holds at most MaxDecls
\* declaration lines
DeclInit ==
    /\ \E inEntry \in lineChoices(DeclLines, MaxDecls) :
       \E inModule \in lineChoices(DeclLines, MaxDecls) :
          files = (DeclPaths[1] :> RequireB \o Newline \o linesText(DeclLines, inEntry))
                      @@ (DeclPaths[2] :> linesText(DeclLines, inModule))
    /\ pc = "start"
    /\ modules = EmptyMap
    /\ keys = <<>>
    /\ reads = <<>>
    /\ walk = NoWalk
    /\ turns = 0
    /\ saves = 0
    /\ error = NoError
    /\ graph = NoGraph
    /\ lint = NoLint
    /\ bundle = <<>>
    /\ TextIdle
    /\ RuntimeIdle
    /\ HostIdle

DeclSpec == DeclInit /\ [][Next]_vars

\* what the lines of DeclLines read in the wrapper of a module: the two
\* global declarations carry `local`, the other lines are as written
DeclLinesInModule ==
    << <<"l", "o", "c", "a", "l", " ", "f", "u", "n", "c", "t", "i", "o", "n",
       " ", "m", "a", "i", "n", "(", ")", " ", "e", "n", "d">>,
       <<"l", "o", "c", "a", "l", " ", "f", "u", "n", "c", "t", "i", "o", "n",
       " ", "h", "e", "l", "p", "e", "r", "(", ")", " ", "e", "n", "d">>,
       <<"l", "o", "c", "a", "l", " ", "f", "u", "n", "c", "t", "i", "o", "n",
       " ", "m", "a", "i", "n", "(", ")", " ", "e", "n", "d">>,
       <<"f", "u", "n", "c", "t", "i", "o", "n", " ", "M", ".", "f", "(", ")",
       " ", "e", "n", "d">>,
       <<"-", "-", " ", "f", "u", "n", "c", "t", "i", "o", "n", " ", "m", "a",
       "i", "n", "(", ")", " ", "e", "n", "d">> >>

\* the lines the file at path was written from
chosenLines(fs, path, prefix) ==
    CHOOSE chosen \in lineChoices(DeclLines, MaxDecls) :
        fs[path] = prefix \o linesText(DeclLines, chosen)

\* the wrapper of module b when its file was written from the lines chosen:
\* every line indented by four spaces, declarations localized
localizedWrapper(chosen) ==
    WrapperOpen \o <<"b">> \o WrapperAssign \o Newline
        \o Concat([k \in 1..Len(chosen) |->
                      Indent \o DeclLinesInModule[chosen[k]] \o Newline])
        \o Newline \o WrapperEnd

\* C16: in the bundle the declaration lines of the entry stand as written,
\* without an added `local`, at the end of the bundle, and the wrapper of the
\* non-entry module holds its global `function name(...)` declarations as
\* `local function name(...)`
OnlyModulesAreLocalized ==
    pc = "bundled" =>
        /\ EndsWith(bundle,
                    Newline \o linesText(DeclLines,
                                         chosenLines(files, DeclPaths[1],
                                                     RequireB \o Newline)))
        /\ StartsWithAt(bundle, Len(bundlePrologue),
                        localizedWrapper(chosenLines(files, DeclPaths[2], <<>>))
                            \o Newline \o Newline)

\* C16 witness: a bundle was generated for a project in which the entry and
\* the module both declare `function main() end`
SameDeclarationInEntryAndModule ==
    /\ pc = "bundled"
    /\ 1 \in Range(chosenLines(files, DeclPaths[1], RequireB \o Newline))
    /\ 1 \in Range(chosenLines(files, DeclPaths[2], <<>>))

\* ------------------------------------------------------------------------
\* The build pipeline on a project whose files assign to an imported table
\* ------------------------------------------------------------------------
\* number of lines a file of a linted project holds at most
MaxLintLines == 3

\* the entry a.lua, the module b.lua and the empty module c.lua
LintPaths ==
    << EntryPath,
       <<"/", "s", "r", "c", "/", "b", ".", "l", "u", "a">>,
       <<"/", "s", "r", "c", "/", "c", ".", "l", "u", "a">> >>

\* the lines written into the files: sampev bound to the external module
\* samp, a handler assigned, another handler declared, sampev bound to the
\* module c of the project
AssignLines ==
    << <<"s", "a", "m", "p", "e", "v", " ", "=", " ", "r", "e", "q", "u",
       "i", "r", "e", " ", "'", "s", "a", "m", "p", "'">>,
       <<"s", "a", "m", "p", "e", "v", ".", "o", "n", "X", " ", "=", " ",
       "f">>,
       <<"f", "u", "n", "c", "t", "i", "o", "n", " ", "s", "a", "m", "p",
       "e", "v", ".", "o", "n", "Y", "(", ")", " ", "e", "n", "d">>,
       <<"s", "a", "m", "p", "e", "v", " ", "=", " ", "r", "e", "q", "u",
       "i", "r", "e", "(", "'", ".", "/", "c", "'", ")">> >>

\* the files of a linted project: the entry requires b, and the entry and b
\* hold the lines chosen from pool
lintFiles(pool, inEntry, inModule) ==
    (LintPaths[1] :> RequireB \o Newline \o linesText(pool, inEntry))
        @@ (LintPaths[2] :> linesText(pool, inModule))
        @@ (LintPaths[3] :> <<>>)

AssignInit ==
    /\ \E inEntry \in lineChoices(AssignLines, MaxLintLines) :
       \E inModule \in lineChoices(AssignLines, MaxLintLines) :
          files = lintFiles(AssignLines, inEntry, inModule)
    /\ pc = "start"
    /\ modules = EmptyMap
    /\ keys = <<>>
    /\ reads = <<>>
    /\ walk = NoWalk
    /\ turns = 0
    /\ saves = 0
    /\ error = NoError
    /\ graph = NoGraph
    /\ lint = NoLint
    /\ bundle = <<>>
    /\ TextIdle
    /\ RuntimeIdle
    /\ HostIdle

AssignSpec == AssignInit /\ [][Next]_vars

\* the property paths the lines of AssignLines assign to
PathOnX == <<"s", "a", "m", "p", "e", "v", ".", "o", "n", "X">>
PathOnY == <<"s", "a", "m", "p", "e", "v", ".", "o", "n", "Y">>

\* the lines of AssignLines that assign to a path
linesAssigning(path) ==
    IF path = PathOnX THEN {AssignLines[2]}
    ELSE IF path = PathOnY THEN {AssignLines[3]}
    ELSE {}

\* the lines of the file at path
fileLines(fs, path) == Split(fs[path], "\n")

\* the places where the file at filePath assigns to path through sampev bound
\* to the external module: none when the file does not bind it so
occurrencesIn(fs, filePath, path) ==
    IF AssignLines[1] \notin Range(fileLines(fs, filePath)) THEN {}
    ELSE {[filePath |-> filePath, line |-> k] :
             k \in {n \in 1..Len(fileLines(fs, filePath)) :
                       fileLines(fs, filePath)[n] \in linesAssigning(path)}}

\* the places of the project that assign to path
occurrences(fs, path) == UNION {occurrencesIn(fs, p, path) : p \in DOMAIN fs}

\* the warnings of a lint result that name path
warningsOf(result, path) ==
    SelectSeq(result.duplicateAssignments, LAMBDA w : w.propertyPath = path)

\* the places a warning lists
placesOf(warning) ==
    {[filePath |-> warning.assignments[k].filePath,
      line |-> warning.assignments[k].line] : k \in 1..Len(warning.assignments)}

\* C19: a property path is reported if and only if files of the graph
\* assign to it, through a variable bound to an external import, in at least
\* two distinct files; assignments within one file alone are not reported,
\* and a reported path has exactly one warning, which lists each of its
\* assignments once
DuplicateIffInTwoFiles ==
    pc \in {"linted", "bundled"} =>
        /\ \A k \in 1..Len(lint.duplicateAssignments) :
              lint.duplicateAssignments[k].propertyPath \in {PathOnX, PathOnY}
        /\ \A path \in {PathOnX, PathOnY} :
              \E places \in {occurrences(files, path)} :
                 IF Cardinality({o.filePath : o \in places}) >= 2
                 THEN /\ Len(warningsOf(lint, path)) = 1
                      /\ placesOf(warningsOf(lint, path)[1]) = places
                      /\ Len(warningsOf(lint, path)[1].assignments) = Cardinality(places)
                 ELSE warningsOf(lint, path) = <<>>

\* C19 witness: the entry assigns to sampev.onX twice and the module b once,
\* and the lint result holds one warning that lists the three assignments
ThreeAssignmentsInTwoFilesReported ==
    /\ pc = "linted"
    /\ Cardinality(occurrencesIn(files, LintPaths[1], PathOnX)) = 2
    /\ Cardinality(occurrencesIn(files, LintPaths[2], PathOnX)) = 1
    /\ Len(lint.duplicateAssignments) = 1
    /\ Len(lint.duplicateAssignments[1].assignments) = 3

\* ------------------------------------------------------------------------
\* Properties of the auto-localizer
\* ------------------------------------------------------------------------
\* a declaration `function f()` of the plain name f starts at offset i
plainDeclarationAt(source, i) ==
    /\ StartsWithAt(source, i, DeclParts[1])
    /\ At(source, i - 1) \notin IdentChar

\* the word local stands before offset i, separated from it by white space
localBefore(source, i) ==
    \E j \in 0..(i - 1) :
       /\ \A k \in j..(i - 1) : At(source, k) \in WhiteSpace
       /\ StartsWithAt(source, j - Len(KwLocal), KwLocal)
       /\ At(source, j - Len(KwLocal) - 1) \notin IdentChar

\* source with `local ` written in front of every offset of sites
withLocalAt(source, sites) ==
    Concat([k \in 1..Len(source) |->
               (IF (k - 1) \in sites THEN KwLocalSpace ELSE <<>>) \o <<source[k]>>])

\* the declarations of source the claim has localized, given the strings and
\* comments of source
declarationsToLocalize(source, spans) ==
    {i \in 0..(Len(source) - 1) :
        /\ plainDeclarationAt(source, i)
        /\ ~isInsideRange(i, spans)
        /\ ~localBefore(source, i)}

\* C17 as stated, for buffers whose strings and block comments are all
\* closed: the output is the input with `local ` in front of exactly the
\* declarations of a plain name that start in no string and no comment and
\* do not follow the word local; dotted, method and anonymous functions and
\* all other text are as written
LocalizesPlainDeclarationsOutsideSpans ==
    textPc \in {"localized", "relocalized"} =>
        \E lex \in {lexicalFrom(buffer, 0)} :
           lex.closed =>
              localized = withLocalAt(buffer, declarationsToLocalize(buffer, lex.spans))

\* the same statement over the spans the scanner of parser.ts reports
LocalizesOutsideScannerSpans ==
    textPc \in {"localized", "relocalized"} =>
        localized = withLocalAt(buffer,
                                declarationsToLocalize(buffer, excludedRanges(buffer)))

\* C18: localizing the localized text changes nothing
LocalizeIsIdempotent ==
    textPc = "relocalized" => relocalized = localized

\* C18 witness: a buffer in which a declaration was localized has been
\* localized twice
LocalizedTwice ==
    /\ textPc = "relocalized"
    /\ localized # buffer

\* ------------------------------------------------------------------------
\* The build pipeline on a project whose module declares host callbacks
\* ------------------------------------------------------------------------
\* the lines written into the module: a host callback, a local function of
\* the same name, a helper, a comment, a string and a comment that hold the
\* declaration of a host callback
EventLines ==
    << <<"f", "u", "n", "c", "t", "i", "o", "n", " ", "m", "a", "i", "n",
       "(", ")", " ", "e", "n", "d">>,
       <<"l", "o", "c", "a", "l", " ", "f", "u", "n", "c", "t", "i", "o",
       "n", " ", "m", "a", "i", "n", "(", ")", " ", "e", "n", "d">>,
       <<"f", "u", "n", "c", "t", "i", "o", "n", " ", "h", "e", "l", "p",
       "e", "r", "(", ")", " ", "e", "n", "d">>,
       <<"-", "-", " ", "i", "t", "'", "s">>,
       <<"s", " ", "=", " ", "'", "f", "u", "n", "c", "t", "i", "o", "n",
       " ", "m", "a", "i", "n", "(", ")", " ", "e", "n", "d", "'">>,
       <<"-", "-", " ", "f", "u", "n", "c", "t", "i", "o", "n", " ", "m",
       "a", "i", "n", "(", ")", " ", "e", "n", "d">> >>

\* the entry requires b and declares main, the module b holds at most
\* MaxLintLines lines
EventInit ==
    /\ \E inModule \in lineChoices(EventLines, MaxLintLines) :
          files = lintFiles(EventLines, <<1>>, inModule)
    /\ pc = "start"
    /\ modules = EmptyMap
    /\ keys = <<>>
    /\ reads = <<>>
    /\ walk = NoWalk
    /\ turns = 0
    /\ saves = 0
    /\ error = NoError
    /\ graph = NoGraph
    /\ lint = NoLint
    /\ bundle = <<>>
    /\ TextIdle
    /\ RuntimeIdle
    /\ HostIdle

EventSpec == EventInit /\ [][Next]_vars

KwMain == <<"m", "a", "i", "n">>

\* a declaration `function main(` starts at offset i
mainDeclarationAt(source, i) ==
    /\ StartsWithAt(source, i, EventLines[1])
    /\ At(source, i - 1) \notin IdentChar

\* the warnings the claim expects for the file at filePath, given the strings
\* and comments of its text
eventsToReport(fs, filePath, spans) ==
    {[eventName |-> KwMain, filePath |-> filePath,
      line |-> getLineAndColumn(fs[filePath], i).line] :
        i \in {j \in 0..(Len(fs[filePath]) - 1) :
                  /\ mainDeclarationAt(fs[filePath], j)
                  /\ ~isInsideRange(j, spans)
                  /\ ~localBefore(fs[filePath], j)}}

\* C20 as stated, for a module whose strings are all closed: the warnings
\* are those for the declarations of a host callback in the module that
\* start in no string and no comment and do not follow the word local, each
\* once, and none is for the entry
EventsAreTheCallbacksOutsideSpans ==
    pc \in {"linted", "bundled"} =>
        \E lex \in {lexicalFrom(files[LintPaths[2]], 0)} :
           lex.closed =>
              /\ Range(lint.moonloaderEventsInModules)
                    = eventsToReport(files, LintPaths[2], lex.spans)
              /\ Len(lint.moonloaderEventsInModules)
                    = Cardinality(eventsToReport(files, LintPaths[2], lex.spans))

\* the same statement over the spans the scanner of parser.ts reports
EventsOutsideScannerSpans ==
    pc \in {"linted", "bundled"} =>
        /\ Range(lint.moonloaderEventsInModules)
              = eventsToReport(files, LintPaths[2], excludedRanges(files[LintPaths[2]]))
        /\ Len(lint.moonloaderEventsInModules)
              = Cardinality(eventsToReport(files, LintPaths[2],
                                           excludedRanges(files[LintPaths[2]])))

\* ------------------------------------------------------------------------
\* Properties of the scanner
\* ------------------------------------------------------------------------
\* two spans share an offset
spansOverlap(a, b) == a.start <= b.end /\ b.start <= a.end

\* no two spans of the sequence share an offset
pairwiseDisjoint(spans) ==
    \A k \in 1..Len(spans) : \A l \in (k + 1)..Len(spans) :
        ~spansOverlap(spans[k], spans[l])

\* C21 as stated: the string spans of a buffer are pairwise disjoint, its
\* comment spans are pairwise disjoint, and no string span shares an offset
\* with a comment span
StringAndCommentSpansDisjoint ==
    textPc \in {"parsed", "rewritten"} =>
        \E strings \in {findAllStringSpans(buffer)} :
        \E comments \in {findAllCommentSpans(buffer, strings)} :
           /\ pairwiseDisjoint(strings)
           /\ pairwiseDisjoint(comments)
           /\ \A k \in 1..Len(strings) : \A l \in 1..Len(comments) :
                 ~spansOverlap(strings[k], comments[l])

\* the part of the statement that holds: spans of one kind are pairwise
\* disjoint, and no comment span starts inside a string span
SpansOfOneKindDisjoint ==
    textPc \in {"parsed", "rewritten"} =>
        \E strings \in {findAllStringSpans(buffer)} :
        \E comments \in {findAllCommentSpans(buffer, strings)} :
           /\ pairwiseDisjoint(strings)
           /\ pairwiseDisjoint(comments)
           /\ \A l \in 1..Len(comments) : ~isInsideRange(comments[l].start, strings)

\* the quote at offset j opens a string that is not closed: no comment and no
\* long bracket can have begun before it, and its quote character does not
\* occur again
unterminatedAt(source, j) ==
    /\ At(source, j) \in Quotes
    /\ \A k \in 0..(j - 1) : At(source, k) \notin Quotes \cup {"-", "["}
    /\ \A k \in (j + 1)..(Len(source) - 1) : At(source, k) # At(source, j)

\* C22 as stated: a quoted string that is not closed has a string span from
\* its opening quote to the end of the buffer, and no require site behind
\* the opening quote is reported
UnterminatedStringRunsToEnd ==
    textPc \in {"parsed", "rewritten"} =>
        \A j \in 0..(Len(buffer) - 1) :
           unterminatedAt(buffer, j) =>
              /\ \E k \in 1..Len(findAllStringSpans(buffer)) :
                    /\ findAllStringSpans(buffer)[k].start = j
                    /\ findAllStringSpans(buffer)[k].end >= Len(buffer) - 1
              /\ \A k \in 1..Len(parsed) : siteOffset(buffer, parsed[k]) < j

\* what the scanner does instead: a quoted string that is not closed has no
\* span, and no span begins behind its opening quote
UnterminatedStringHasNoSpan ==
    textPc \in {"parsed", "rewritten"} =>
        \A j \in 0..(Len(buffer) - 1) :
           unterminatedAt(buffer, j) =>
              \A k \in 1..Len(findAllStringSpans(buffer)) :
                 findAllStringSpans(buffer)[k].end < j

\* ------------------------------------------------------------------------
\* Properties of the build command
\* ------------------------------------------------------------------------
\* the output file is written in this step
outputTouched == output' # output \/ writes' # writes

\* C23: the output file is written once per successful build, by the step
\* that follows graph construction, linting, bundle generation and the making
\* of the output directory, and holds
\* the bundle; a build that fails in loadConfig or buildDependencyGraph, or
\* whose write is refused, ends with its error and leaves the output file as
\* it was, whatever is saved or removed while it runs
OutputWrittenOnceOnSuccess ==
    /\ [](/\ writes = (IF pc = "written" THEN 1 ELSE 0)
          /\ pc = "written" =>
                /\ error = NoError
                /\ graph # NoGraph
                /\ bundle = generateBundle(graph, Config)
                /\ output = [exists |-> TRUE, content |-> bundle]
          /\ pc = "failed" =>
                /\ error.code \in {"CONFIG_NOT_FOUND", "CONFIG_PARSE_ERROR",
                                   "TypeError", "INVALID_CONFIG", "ENOENT",
                                   "MODULE_NOT_FOUND", "CIRCULAR_DEPENDENCY",
                                   "EACCES"}
                /\ error.code \in {"CONFIG_NOT_FOUND", "CONFIG_PARSE_ERROR",
                                   "TypeError", "INVALID_CONFIG"} => turns = 0
                /\ output \in {NoFile, StaleFile})
    /\ [][outputTouched => pc = "ensured" /\ pc' = "written"]_vars
    /\ [][pc' = "ensured" => pc = "bundled"]_vars
    /\ [][pc' = "bundled" => pc = "linted"]_vars

\* C23 witness: a build has replaced the stale output file by its bundle
StaleOutputReplaced ==
    /\ pc = "written"
    /\ writes = 1
    /\ output.content = bundle
    /\ output # StaleFile
    /\ Len(graph.moduleOrder) > 1

\* ------------------------------------------------------------------------
\* Properties of the order of discovery and cycle detection
\* ------------------------------------------------------------------------
\* what the bundled require statements of the file at path resolve to
siteTargets(fs, path) ==
    Only({ {resolveModulePath(fs, sites[k].moduleName, SourceRoot, path) :
               k \in 1..Len(sites)}
           : sites \in {localSites(fs, path)} })

\* the import table of a project: the pairs of a file and what one of its
\* bundled require statements resolves to
importTable(fs) == UNION {{<<p, t>> : t \in siteTargets(fs, p)} : p \in DOMAIN fs}

\* the files the file at path imports
fileImports(table, path) ==
    {e[2].filePath : e \in {x \in table : x[1] = path /\ x[2].found}}

\* the file at path holds a bundled require statement that resolves to no file
hasMissingImport(table, path) == \E e \in table : e[1] = path /\ ~e[2].found

RECURSIVE filesFrom(_, _)
\* the files reachable from the files of `reached` along imports
filesFrom(table, reached) ==
    IF \A p \in reached : fileImports(table, p) \subseteq reached THEN reached
    ELSE filesFrom(table, reached \cup UNION {fileImports(table, p) : p \in reached})

\* the file at path imports itself, directly or through other files
fileOnCycle(table, path) == path \in filesFrom(table, fileImports(table, path))

\* C24: when the files reachable from the entry hold both a cycle and a
\* bundled import that resolves to no file, the build fails with
\* MODULE_NOT_FOUND, never with CIRCULAR_DEPENDENCY; and whenever discovery
\* has ended without that error, so that cycles are looked for, every
\* reachable file has its node.  Stated where buildDependencyGraph has
\* failed or is about to look for cycles.
MissingModuleReportedBeforeCycle ==
    pc \in {"discovered", "failed"} =>
        \E table \in {importTable(files)} :
        \E reach \in {filesFrom(table, {EntryPath})} :
           /\ ((\E p \in reach : hasMissingImport(table, p))
                  /\ (\E p \in reach : fileOnCycle(table, p)))
                 => (pc = "failed" /\ error.code = "MODULE_NOT_FOUND")
           /\ error.code # "MODULE_NOT_FOUND"
                 => {modules[m].filePath : m \in DOMAIN modules} = reach

\* C24 witness: discovery has failed on a missing module after it had
\* followed a cycle of imports to its end
MissingModuleMetBehindCycle ==
    /\ pc = "failed"
    /\ error.code = "MODULE_NOT_FOUND"
    /\ hasCycle(modules)

\* ------------------------------------------------------------------------
\* Properties of dependency discovery
\* ------------------------------------------------------------------------
\* how often x occurs in seq
occurrencesOf(seq, x) == Cardinality({k \in 1..Len(seq) : seq[k] = x})

\* the reads that came back with a source: all of them, but for the last one
\* when it failed
readsAnswered ==
    IF error.code = "ENOENT" THEN SubSeq(reads, 1, Len(reads) - 1) ELSE reads

\* no path was handed to readTextFile twice, every file read is the file of a
\* node, and the file of every node was read once and is the file of no other
\* node
everyModuleReadOnce ==
    /\ Len(readsAnswered) = Cardinality(DOMAIN modules)
    /\ Len(keys) = Cardinality(DOMAIN modules)
    /\ \A k \in 1..Len(reads) : occurrencesOf(reads, reads[k]) = 1
    /\ \A k \in 1..Len(readsAnswered) :
          \E m \in DOMAIN modules : modules[m].filePath = readsAnswered[k]
    /\ \A m \in DOMAIN modules :
          /\ occurrencesOf(readsAnswered, modules[m].filePath) = 1
          /\ occurrencesOf(keys, m) = 1
          /\ \A n \in DOMAIN modules : modules[n].filePath = modules[m].filePath => n = m

\* C25: dependency discovery ends, with the graph discovered or with an
\* error, on every project, also when its imports form cycles or a file
\* imports itself, and also when files are saved or removed while it runs;
\* and it has then read the file of each module once and made one node for
\* it, however often and from however many modules it is required
DiscoveryEndsReadingEachFileOnce ==
    /\ [](pc = "failed" => error.code \in {"MODULE_NOT_FOUND", "ENOENT"})
    /\ [](pc = "discovered" => error = NoError /\ walk = NoWalk)
    /\ [](pc \in {"discovered", "failed"} => everyModuleReadOnce)
    /\ (pc = "start") ~> (pc \in {"discovered", "failed"})

\* C25 witness: discovery has ended on a project in which one module is
\* required twice by one module and also by another, and in which a module
\* lies on a cycle
SharedAndRepeatedImportDiscovered ==
    /\ pc \in {"discovered", "failed"}
    /\ \E m \in DOMAIN modules :
          /\ Cardinality({n \in DOMAIN modules : m \in importsOf(modules, n)}) >= 2
          /\ \E n \in DOMAIN modules : occurrencesOf(modules[n].dependencies, m) >= 2
    /\ hasCycle(modules)

\* ------------------------------------------------------------------------
\* Properties of compact requires
\* ------------------------------------------------------------------------
\* the positions in parsed of the compact sites reported at offset i
compactSitesAt(source, sites, i) ==
    {k \in 1..Len(sites) :
        /\ sites[k].type = "compact"
        /\ sites[k].line = getLineAndColumn(source, i).line
        /\ sites[k].column = getLineAndColumn(source, i).column}

\* a compact require is written at offset i, outside the strings and comments
\* of the buffer both as the script language and as the scanner read them
compactRequireAt(source, spans, i) ==
    /\ matchCompact(source, i).ok
    /\ ~isInsideRange(i, spans)
    /\ ~isInsideRange(i, excludedRanges(source))

\* C26 as stated, for buffers whose strings and block comments are all
\* closed: every compact require written outside strings and comments is
\* reported as one compact site, also when a closing parenthesis follows it
CompactRequiresReportedOnce ==
    textPc \in {"parsed", "rewritten"} =>
        \E lex \in {lexicalFrom(buffer, 0)} :
           lex.closed =>
              \A i \in 0..(Len(buffer) - 1) :
                 compactRequireAt(buffer, lex.spans, i)
                     => Cardinality(compactSitesAt(buffer, parsed, i)) = 1

\* what the parser does instead: a compact require outside the spans is one
\* site unless the next character that is not a space is a closing parenthesis,
\* and then it is no site at all
CompactRequiresDroppedBeforeParenthesis ==
    textPc \in {"parsed", "rewritten"} =>
        \A i \in 0..(Len(buffer) - 1) :
           (matchCompact(buffer, i).ok /\ ~isInsideRange(i, excludedRanges(buffer)))
               => Cardinality(compactSitesAt(buffer, parsed, i))
                     = IF isPartOfStandardRequire(buffer, i,
                                                  rawLength(matchCompact(buffer, i)))
                       THEN 0 ELSE 1

\* ------------------------------------------------------------------------
\* The duplicate-assignment lint on files with strings and comments
\* ------------------------------------------------------------------------
\* the lines written into the files: sampev bound to the external module
\* samp, a handler assigned, the same assignment in a comment, the same
\* assignment in a string
MaskLines ==
    << AssignLines[1],
       AssignLines[2],
       <<"-", "-", " ">> \o AssignLines[2],
       <<"s", " ", "=", " ", "\"">> \o AssignLines[2] \o <<"\"">> >>

\* the entry requires b, binds sampev and assigns the handler; the module b
\* holds at most MaxLintLines lines
MaskInit ==
    /\ \E inModule \in lineChoices(MaskLines, MaxLintLines) :
          files = lintFiles(MaskLines, <<1, 2>>, inModule)
    /\ pc = "start"
    /\ modules = EmptyMap
    /\ keys = <<>>
    /\ reads = <<>>
    /\ walk = NoWalk
    /\ turns = 0
    /\ saves = 0
    /\ error = NoError
    /\ graph = NoGraph
    /\ lint = NoLint
    /\ bundle = <<>>
    /\ TextIdle
    /\ RuntimeIdle
    /\ HostIdle

MaskSpec == MaskInit /\ [][Next]_vars

\* the places where the file at filePath holds one of the given lines, none
\* when the file does not bind sampev to the external module
placesIn(fs, filePath, lines) ==
    IF MaskLines[1] \notin Range(fileLines(fs, filePath)) THEN {}
    ELSE {[filePath |-> filePath, line |-> k] :
             k \in {n \in 1..Len(fileLines(fs, filePath)) :
                       fileLines(fs, filePath)[n] \in lines}}

\* the places of the project that hold one of the given lines
placesHolding(fs, lines) == UNION {placesIn(fs, p, lines) : p \in DOMAIN fs}

\* the places listed by the warnings of a lint result
placesListed(result) ==
    UNION {placesOf(result.duplicateAssignments[k]) :
              k \in 1..Len(result.duplicateAssignments)}

\* C27 as stated: only assignments written as code are recorded, so every
\* place a duplicate-assignment warning lists holds the assignment outside
\* strings and comments
WarningsListOnlyCode ==
    pc \in {"linted", "bundled"} =>
        placesListed(lint) \subseteq placesHolding(files, {MaskLines[2]})

\* what the lint does instead: an assignment in a comment or in a string
\* counts like one written as code
WarningsListMaskedAssignments ==
    pc \in {"linted", "bundled"} =>
        \E places \in {placesHolding(files, {MaskLines[2], MaskLines[3], MaskLines[4]})} :
           placesListed(lint)
               = IF Cardinality({o.filePath : o \in places}) >= 2 THEN places ELSE {}

\* ------------------------------------------------------------------------
\* The watch command (commands/watch.ts)
\* ------------------------------------------------------------------------
\* const DEBOUNCE_MS = 100
DEBOUNCE_MS == 100

\* the clock advances by TickMs at most and is followed up to MaxTime
TickMs == 50
MaxTime == 200

\* the watcher delivers at most MaxEvents events and the handler's timer
\* starts at most MaxRebuilds rebuilds
MaxEvents == 3
MaxRebuilds == 2

\* the errors buildDependencyGraph can throw: that of readTextFile for a file
\* that is not there, and its own two
GraphFailures == {"ENOENT", "MODULE_NOT_FOUND", "CIRCULAR_DEPENDENCY"}

\* the errors a build can end with: thrown by loadConfig, by
\* buildDependencyGraph, or by the write of the output file
BuildFailures ==
    {"CONFIG_NOT_FOUND", "CONFIG_PARSE_ERROR", "TypeError", "INVALID_CONFIG"}
        \cup GraphFailures \cup {"EACCES"}

\* a runBuild call that has just called build(), which waits for the
\* existence test of loadConfig: started at the time given, by the timer (a
\* rebuild) or by watchProject itself (the initial build)
newBuild(startedAt) == [phase |-> "loading", startedAt |-> startedAt]

\* the runBuild calls whose build() has not settled
inProgress(made) ==
    {k \in 1..Len(made) : made[k].phase \in {"loading", "parsing", "building", "ensuring", "writing"}}

\* the positions of watchProject at which the process is alive
WatchAlive == {"loading", "parsing", "deploying", "initial", "watching", "closing"}

\* watchProject is called on a project with any configuration file, and
\* with the output file absent or left by an earlier build
WatchInit ==
    /\ watchPc = "loading"
    /\ now = 0
    /\ debounce = NoTimer
    /\ events = <<>>
    /\ builds = <<>>
    /\ reports = <<>>
    /\ configFile \in ConfigFiles
    /\ output \in {NoFile, StaleFile}
    /\ writes = 0
    /\ PipelineIdle
    /\ TextIdle
    /\ RuntimeIdle

\* watch.ts line 20, loadConfig one turn at a time (the existence test, then
\* file.json() and validateConfig): it is awaited outside any try, so its
\* error rejects watchProject.  With the configuration loaded, lines 23-30 run
\* up to the write of the reloader
WatchLoadConfig ==
    /\ watchPc \in {"loading", "parsing"}
    /\ watchPc' = IF watchPc = "loading"
                  THEN (IF configFile = "missing" THEN "crashed" ELSE "parsing")
                  ELSE (IF configFile = "valid" THEN "deploying" ELSE "crashed")
    /\ UNCHANGED <<now, debounce, events, builds, reports, configFile, output, writes,
                   pipelineVars, textVars, runtimeVars>>

\* watch.ts line 30, deployReloader: Bun.write of line 69 is awaited outside
\* any try.  Written, runBuild is called for the initial build (line 33) and
\* awaited; refused, watchProject is rejected
DeployReloader(written) ==
    /\ watchPc = "deploying"
    /\ watchPc' = IF written THEN "initial" ELSE "crashed"
    /\ builds' = IF written THEN <<newBuild(now)>> ELSE builds
    /\ UNCHANGED <<now, debounce, events, reports, configFile, output, writes,
                   pipelineVars, textVars, runtimeVars>>

\* the positions watchProject can be at once the k-th runBuild call has
\* settled: with the awaited initial build over, watch() of line 38 is called
\* in the same turn, and it throws, outside any try, when the source directory
\* cannot be watched; the handler of SIGINT is set in that turn as well
afterBuild(k) ==
    IF k = 1 /\ watchPc = "initial" THEN {"watching", "crashed"} ELSE {watchPc}

\* build() of the k-th call goes on: the existence test of loadConfig has
\* found moonpack.json, or file.json() and validateConfig have returned the
\* configuration and buildDependencyGraph is called
BuildLoadsConfig(k) ==
    /\ k \in 1..Len(builds)
    /\ \/ builds[k].phase = "loading" /\ configFile # "missing"
       \/ builds[k].phase = "parsing" /\ configFile = "valid"
    /\ builds' = [builds EXCEPT ![k].phase = IF @ = "loading" THEN "parsing"
                                             ELSE "building"]
    /\ UNCHANGED <<watchPc, now, debounce, events, reports, configFile, output,
                   writes, pipelineVars, textVars, runtimeVars>>

\* the errors build() can throw where it stands, before it writes: those of
\* loadConfig on moonpack.json as it is now, those of buildDependencyGraph,
\* or that of mkdir (ensureDirectory, build.ts line 60)
failuresAt(phase) ==
    IF phase = "loading"
    THEN (IF configFile = "missing" THEN {"CONFIG_NOT_FOUND"} ELSE {})
    ELSE IF phase = "parsing"
    THEN (IF configFile = "valid" THEN {} ELSE {configError(configFile).code})
    ELSE IF phase = "building" THEN GraphFailures
    ELSE IF phase = "ensuring" THEN {WriteRefused.code}
    ELSE {}

\* runBuild, lines 58-64: build() of the k-th call throws before it writes,
\* the error is caught and shown
BuildFails(k, code) ==
    /\ k \in 1..Len(builds)
    /\ code \in failuresAt(builds[k].phase)
    /\ builds' = [builds EXCEPT ![k].phase = "failed"]
    /\ reports' = Append(reports, [build |-> k, code |-> code])
    /\ watchPc' \in afterBuild(k)
    /\ UNCHANGED <<now, debounce, events, configFile, output, writes,
                   pipelineVars, textVars, runtimeVars>>

\* build.ts lines 47-60: buildDependencyGraph of the k-th call has returned
\* the graph; build() lints it, generates the bundle and calls
\* ensureDirectory, which it awaits
BuildEnsuresDirectory(k) ==
    /\ k \in 1..Len(builds)
    /\ builds[k].phase = "building"
    /\ builds' = [builds EXCEPT ![k].phase = "ensuring"]
    /\ UNCHANGED <<watchPc, now, debounce, events, reports, configFile, output,
                   writes, pipelineVars, textVars, runtimeVars>>

\* build.ts lines 62-65: the directory is there, and build() of the k-th
\* call calls writeTextFile, which it awaits
BuildStartsWrite(k) ==
    /\ k \in 1..Len(builds)
    /\ builds[k].phase = "ensuring"
    /\ builds' = [builds EXCEPT ![k].phase = "writing"]
    /\ UNCHANGED <<watchPc, now, debounce, events, reports, configFile, output,
                   writes, pipelineVars, textVars, runtimeVars>>

\* the write of the k-th call is over: the output file holds the bundle of
\* that build and runBuild returns
BuildWrites(k) ==
    /\ k \in 1..Len(builds)
    /\ builds[k].phase = "writing"
    /\ builds' = [builds EXCEPT ![k].phase = "succeeded"]
    /\ output' = [exists |-> TRUE, content |-> <<"b", "u", "i", "l", "d">>]
    /\ writes' = writes + 1
    /\ watchPc' \in afterBuild(k)
    /\ UNCHANGED <<now, debounce, events, reports, configFile,
                   pipelineVars, textVars, runtimeVars>>

\* the write of the k-th call throws: caught and shown like any other error
BuildWriteFails(k) ==
    /\ k \in 1..Len(builds)
    /\ builds[k].phase = "writing"
    /\ builds' = [builds EXCEPT ![k].phase = "failed"]
    /\ reports' = Append(reports, [build |-> k, code |-> WriteRefused.code])
    /\ watchPc' \in afterBuild(k)
    /\ UNCHANGED <<now, debounce, events, configFile, output, writes,
                   pipelineVars, textVars, runtimeVars>>

\* SIGINT: before line 48 has set the handler the signal ends the process,
\* and with it the timer and the builds in progress; after, the handler closes
\* the watcher, which delivers no event any more, and awaits cleanupReloader,
\* while a timer that is set stays set
Interrupt ==
    /\ watchPc \in WatchAlive \ {"closing"}
    /\ watchPc' = IF watchPc = "watching" THEN "closing" ELSE "exited"
    /\ builds' = IF watchPc = "watching" THEN builds ELSE <<>>
    /\ UNCHANGED <<now, debounce, events, reports, configFile, output,
                   writes, pipelineVars, textVars, runtimeVars>>

\* the handler of SIGINT, line 52: process.exit(0) ends the process, and
\* with it the timer, the builds in progress and what the handler knew
Exit ==
    /\ watchPc = "closing"
    /\ watchPc' = "exited"
    /\ debounce' = NoTimer
    /\ events' = <<>>
    /\ builds' = <<>>
    /\ UNCHANGED <<now, reports, configFile, output, writes, pipelineVars, textVars,
                   runtimeVars>>

\* a faulty handler that sets a second timer and leaves the first one running
ChangeWithoutClear(isLua) ==
    /\ watchPc = "watching"
    /\ Len(events) < MaxEvents
    /\ events' = Append(events, [at |-> now, lua |-> isLua])
    /\ debounce' = IF isLua /\ ~debounce.armed
                   THEN [armed |-> TRUE, due |-> now + DEBOUNCE_MS]
                   ELSE debounce
    /\ UNCHANGED <<watchPc, now, builds, reports, configFile, output, writes,
                   pipelineVars, textVars, runtimeVars>>

\* the callback of watch(), lines 38-46, for an event whose filename ends in
\* .lua (isLua) or does not: `if (debounce) clearTimeout(debounce)` and
\* `debounce = setTimeout(..., DEBOUNCE_MS)`
Change(isLua) ==
    /\ watchPc = "watching"
    /\ Len(events) < MaxEvents
    /\ events' = Append(events, [at |-> now, lua |-> isLua])
    /\ debounce' = IF isLua THEN [armed |-> TRUE, due |-> now + DEBOUNCE_MS]
                   ELSE debounce
    /\ UNCHANGED <<watchPc, now, builds, reports, configFile, output, writes,
                   pipelineVars, textVars, runtimeVars>>

\* time passes, but not beyond the moment at which the timer is due
Tick ==
    /\ watchPc \in WatchAlive
    /\ now < MaxTime
    /\ ~(debounce.armed /\ debounce.due = now)
    /\ now' = IF debounce.armed /\ debounce.due < now + TickMs THEN debounce.due
              ELSE IF now + TickMs > MaxTime THEN MaxTime
              ELSE now + TickMs
    /\ UNCHANGED <<watchPc, debounce, events, builds, reports, configFile,
                   output, writes, pipelineVars, textVars, runtimeVars>>

\* a faulty callback that starts no rebuild once a build has failed
FireUnlessFailed ==
    /\ watchPc \in {"watching", "closing"}
    /\ debounce.armed
    /\ debounce.due = now
    /\ Len(builds) <= MaxRebuilds
    /\ debounce' = [debounce EXCEPT !.armed = FALSE]
    /\ builds' = IF \E k \in 1..Len(builds) : builds[k].phase = "failed" THEN builds
                 ELSE Append(builds, newBuild(now))
    /\ UNCHANGED <<watchPc, now, events, reports, configFile, output, writes,
                   pipelineVars, textVars, runtimeVars>>

\* the timer's callback, lines 42-45: runBuild is called, whatever became of
\* the calls before it
Fire ==
    /\ watchPc \in {"watching", "closing"}
    /\ debounce.armed
    /\ debounce.due = now
    /\ Len(builds) <= MaxRebuilds
    /\ debounce' = [debounce EXCEPT !.armed = FALSE]
    /\ builds' = Append(builds, newBuild(now))
    /\ UNCHANGED <<watchPc, now, events, reports, configFile, output, writes,
                   pipelineVars, textVars, runtimeVars>>

BuildStep ==
    \E k \in 1..(MaxRebuilds + 1) :
       \/ BuildLoadsConfig(k)
       \/ \E code \in BuildFailures : BuildFails(k, code)
       \/ BuildEnsuresDirectory(k)
       \/ BuildStartsWrite(k)
       \/ BuildWrites(k)
       \/ BuildWriteFails(k)

WatchNext ==
    \/ WatchLoadConfig
    \/ \E written \in BOOLEAN : DeployReloader(written)
    \/ \E found \in ConfigFiles : ConfigChanges(found)
    \/ BuildStep
    \/ Interrupt
    \/ Exit
    \/ \E isLua \in BOOLEAN : Change(isLua)
    \/ Tick
    \/ Fire

WatchSpec == WatchInit /\ [][WatchNext]_vars

\* the event loop runs a timer's callback when it is due, and the clock does
\* not stop
FairWatchSpec == WatchSpec /\ WF_vars(Fire) /\ WF_vars(Tick)

\* ------------------------------------------------------------------------
\* Properties of the watch command
\* ------------------------------------------------------------------------
\* the times at which the watcher reported a change of a .lua file
changes == {events[k].at : k \in {n \in 1..Len(events) : events[n].lua}}

\* the runBuild calls that ended with an error
failedBuilds == {k \in 1..Len(builds) : builds[k].phase = "failed"}

\* while the process runs, every failed build has been shown once, and
\* nothing else has
failuresReported ==
    watchPc # "exited" =>
        /\ Len(reports) = Cardinality(failedBuilds)
        /\ \A k \in failedBuilds :
              Cardinality({r \in 1..Len(reports) : reports[r].build = k}) = 1

\* watchProject is rejected before any build, by loadConfig or by the write
\* of the reloader, or by watch() at the end of the initial build, and by no
\* rebuild; once the initial build is over, it watches unless watch() threw
failuresNotFatal ==
    /\ watchPc = "crashed" =>
           builds = <<>> \/ (Len(builds) = 1 /\ inProgress(builds) = {})
    /\ ~(1 \in inProgress(builds)) /\ builds # <<>> =>
           watchPc \in {"watching", "closing", "crashed"}

\* a build that fails leaves watchProject where a build that succeeds
\* leaves it: a rebuild where it is, the initial build at watch()
failedLikeSucceeded ==
    failedBuilds' \ failedBuilds # {} =>
        IF watchPc = "initial" THEN watchPc' \in {"watching", "crashed"}
        ELSE watchPc' = watchPc

\* a runBuild call is made by watchProject at its start or by a timer that is
\* due, and a timer is set by the handler of a change of a .lua file alone
buildsStartedByChangesOnly ==
    /\ Len(builds') > Len(builds) =>
          \/ watchPc = "deploying"
          \/ (debounce.armed /\ debounce.due = now /\ ~debounce'.armed)
    /\ debounce'.armed /\ debounce' # debounce =>
          Len(events') = Len(events) + 1 /\ events'[Len(events')] = [at |-> now, lua |-> TRUE]

\* C28: in watch mode a failed build is shown and is neither retried nor
\* fatal: watchProject goes on as after a build that succeeded, no build
\* starts but by the timer that a change of a .lua file has set, and such a
\* timer, set after a failure, does start a new build unless the process is
\* ended first
FailedBuildReportedNotRetriedNotFatal ==
    /\ [](failuresReported /\ failuresNotFatal)
    /\ [][failedLikeSucceeded /\ buildsStartedByChangesOnly]_vars
    /\ \A n \in 1..MaxRebuilds :
          (failedBuilds # {} /\ debounce.armed /\ Len(builds) = n
               /\ debounce.due <= MaxTime)
             ~> (\/ Len(builds) > n
                 \/ (debounce.armed /\ debounce.due > MaxTime)
                 \/ watchPc = "exited")

\* C28 witness: the initial build and the first rebuild have failed, both
\* are shown, and a second rebuild is running
RebuildAfterTwoFailures ==
    /\ watchPc = "watching"
    /\ Len(builds) = 3
    /\ builds[1].phase = "failed"
    /\ builds[2].phase = "failed"
    /\ 3 \in inProgress(builds)
    /\ reports[1].code # reports[2].code
    /\ Len(reports) = 2

\* the rebuilds: the runBuild calls the timer made
rebuilds == 2..Len(builds)

\* the time of the last change of a .lua file
lastChange == SetMax(changes)

\* while the timer is set it is due DEBOUNCE_MS after the last change of a
\* .lua file, and that moment has not passed
timerFollowsLastChange ==
    debounce.armed =>
        /\ changes # {}
        /\ debounce.due = lastChange + DEBOUNCE_MS
        /\ now <= debounce.due

\* every rebuild started DEBOUNCE_MS after a change of a .lua file which no
\* other such change followed in between, and no two rebuilds started together
rebuildsFollowQuietChanges ==
    /\ \A k \in rebuilds :
          /\ builds[k].startedAt - DEBOUNCE_MS \in changes
          /\ \A c \in changes :
                ~(builds[k].startedAt - DEBOUNCE_MS < c /\ c < builds[k].startedAt)
    /\ \A j, k \in rebuilds : builds[j].startedAt = builds[k].startedAt => j = k

\* a change of a .lua file that no other followed within DEBOUNCE_MS has one
\* rebuild, once that time is over
quietChangesRebuiltOnce ==
    \A c \in changes :
       (/\ \A d \in changes : ~(c < d /\ d <= c + DEBOUNCE_MS)
        /\ (c + DEBOUNCE_MS < now \/ (c + DEBOUNCE_MS = now /\ ~debounce.armed)))
           => Cardinality({k \in rebuilds : builds[k].startedAt = c + DEBOUNCE_MS}) = 1

\* what the handler does with one event: no build is started; for a .lua file
\* the timer is set anew to DEBOUNCE_MS from now, for any other file it is
\* left as it is
eventHandled ==
    Len(events') = Len(events) + 1 =>
        /\ builds' = builds
        /\ debounce' = IF events'[Len(events')].lua
                       THEN [armed |-> TRUE, due |-> now + DEBOUNCE_MS]
                       ELSE debounce

\* C29: changes of .lua files are debounced: each one sets the timer anew to
\* 100 ms, a burst of changes less than 100 ms apart starts one rebuild,
\* 100 ms after its last change, and an event for another file starts no
\* rebuild and leaves the timer alone
ChangesDebounced ==
    /\ [](timerFollowsLastChange /\ rebuildsFollowQuietChanges /\ quietChangesRebuiltOnce)
    /\ [][eventHandled]_vars

\* C29 witness: three changes of .lua files, each less than 100 ms after the
\* one before, have started one rebuild, 100 ms after the third
BurstOfThreeRebuiltOnce ==
    /\ Len(events) = 3
    /\ \A k \in 1..3 : events[k].lua
    /\ 0 < events[2].at - events[1].at /\ events[2].at - events[1].at < DEBOUNCE_MS
    /\ 0 < events[3].at - events[2].at /\ events[3].at - events[2].at < DEBOUNCE_MS
    /\ Len(builds) = 2
    /\ builds[2].startedAt = events[3].at + DEBOUNCE_MS
    /\ ~debounce.armed

\* C29 witness of the other case: an event for a file that is no .lua file
\* arrived while the timer was set, and the rebuild started at the time set
\* before
OtherFileLeftTimerAlone ==
    /\ Len(events) >= 2
    /\ events[1].lua /\ ~events[2].lua
    /\ events[1].at < events[2].at /\ events[2].at < events[1].at + DEBOUNCE_MS
    /\ Len(builds) >= 2
    /\ builds[2].startedAt = events[1].at + DEBOUNCE_MS

\* ------------------------------------------------------------------------
\* Properties of concurrent builds in watch mode
\* ------------------------------------------------------------------------
\* C30 as stated: at most one build is in progress at any time, so that no
\* two builds are writing the output file at once
AtMostOneBuildInProgress ==
    /\ Cardinality(inProgress(builds)) <= 1
    /\ Cardinality({k \in 1..Len(builds) : builds[k].phase = "writing"}) <= 1

\* what holds instead: the initial build is over before the watcher exists,
\* so no rebuild runs beside it; nothing keeps two rebuilds apart
InitialBuildRunsAlone ==
    1 \in inProgress(builds) => Len(builds) = 1 /\ watchPc = "initial" /\ events = <<>>

\* two rebuilds are writing the output file at once
TwoRebuildsWriting ==
    /\ Len(builds) = 3
    /\ builds[2].phase = "writing"
    /\ builds[3].phase = "writing"

====
